---------------------------- MODULE Spec2Model ----------------------------
(***************************************************************************)
(* Lyra semantic front end: the type algebra (pkg/types), the scope tree   *)
(* and symbol table (pkg/ast/symbols, pkg/symbols) and the Collector pass  *)
(* (pkg/analyzer/collector), modelled as state machines.                   *)
(*                                                                         *)
(*   SpecTypes   : TypesEqual applied to pairs of constructed Type values  *)
(*   SpecScope   : NewScope / Define / Lookup / LookupLocal on a scope tree*)
(*   SpecTable   : the SymbolTable's Register* operations                  *)
(*   SpecCollect : Collector.walkProgram over a list of top-level CST nodes*)
(***************************************************************************)
EXTENDS Integers, Sequences, FiniteSets, TLC

VARIABLES
    ta, tb,        \* the two Type values handed to TypesEqual
    teq,           \* the results of the last comparison (or NoResult)
    scopes,        \* the arena of Scope objects; a *Scope is an index, 0 is nil
    Types,         \* SymbolTable.Types      (map name -> node)
    Functions,     \* SymbolTable.Functions  (map name -> node)
    Traits,        \* SymbolTable.Traits     (map name -> node)
    TraitImpls,    \* SymbolTable.TraitImpls (list of nodes)
    nextId,        \* identity of the next node object that gets bound
    lastOp,        \* the last call on the scope tree / table and what it returned
    cst,           \* the top-level children of the CST root handed to Collect
    pos,           \* walkProgram's loop index i (1-based)
    visited,       \* the child indices walkProgram has dispatched on, in order
    statements,    \* Collector.ast.Statements
    errors,        \* Collector.errors
    panicked,      \* Collect has ended in a run-time panic
    cpos,          \* checkProgram's loop index i (1-based)
    cscope,        \* Checker.scope, the current scope
    terrors,       \* Checker.errors
    lastType,      \* the type CheckExpression derived for the last checked initialiser
    cpanicked,     \* Check has ended in a run-time panic
    cexpr          \* the node a direct call of CheckExpression was handed (or NoCst)

typeVars == <<ta, tb, teq>>

tableVars == <<scopes, Types, Functions, Traits, TraitImpls, nextId, lastOp>>

collectVars == <<cst, pos, visited, statements, errors, panicked>>

checkVars == <<cpos, cscope, terrors, lastType, cpanicked, cexpr>>

vars == <<ta, tb, teq, scopes, Types, Functions, Traits, TraitImpls, nextId, lastOp,
          cst, pos, visited, statements, errors, panicked,
          cpos, cscope, terrors, lastType, cpanicked, cexpr>>

-----------------------------------------------------------------------------
(* Bounds of the model                                                     *)

\* longest tuple element list / function parameter list that is enumerated
MaxArity == 2

\* number of Scope objects a run creates (the global scope included)
MaxScopes == 3

\* number of nodes a run binds with Scope.Define
MaxDefs == 2

\* number of nodes a run registers in the SymbolTable
MaxRegs == 2

-----------------------------------------------------------------------------
(* Type algebra: the variants of types.Type                                *)

\* a nil types.Type interface value (e.g. ArrayType{}.ElementType)
NilType == [kind |-> "Nil"]

PrimitiveType(n) == [kind |-> "Primitive", name |-> n]

ArrayType(e) == [kind |-> "Array", elem |-> e]

MapType(k, v) == [kind |-> "Map", key |-> k, value |-> v]

TupleType(es) == [kind |-> "Tuple", elems |-> es]

ParameterType(m, t) == [modifier |-> m, type |-> t]

FunctionType(ps, r) == [kind |-> "Function", params |-> ps, ret |-> r]

GenericType(n) == [kind |-> "Generic", name |-> n]

\* default is "" when the field has no default value, else the literal's text
StructField(n, t, d) == [name |-> n, type |-> t, default |-> d]

\* fields: a function from (a set of) field names to StructField
StructType(n, fs) == [kind |-> "Struct", name |-> n, fields |-> fs]

\* ctors: the set of constructor names (constructors are never compared)
DataType(n, cs) == [kind |-> "Data", name |-> n, ctors |-> cs]

UnresolvedType(n) == [kind |-> "Unresolved", name |-> n]

\* PrimitiveTypeName constants
PrimitiveNames ==
    {"Int", "Int8", "Int16", "Int32", "Int64",
     "UInt", "UInt8", "UInt16", "UInt32", "UInt64",
     "Float", "Float16", "Float32", "Float64", "Bool", "String"}

-----------------------------------------------------------------------------
(* TypesEqual, as the type switch of unify.go computes it                  *)

RECURSIVE TypesEqual(_, _)

\* mutant: the struct case compares names only and skips the field loop
StructCaseNominal(a, b) == a.name = b.name

\* case StructType: names must match, then every field of a must be present
\* in b with an equal field type (defaults are not looked at)
StructCase(a, b) ==
    /\ a.name = b.name
    /\ \A f \in DOMAIN a.fields :
          /\ f \in DOMAIN b.fields
          /\ TypesEqual(a.fields[f].type, b.fields[f].type)

TypesEqual(a, b) ==
    CASE a.kind = "Primitive" ->
            IF b.kind = "Primitive" THEN a.name = b.name ELSE FALSE
      [] a.kind = "Array" ->
            IF b.kind = "Array" THEN TypesEqual(a.elem, b.elem) ELSE FALSE
      [] a.kind = "Function" ->
            IF b.kind = "Function"
            THEN /\ Len(a.params) = Len(b.params)
                 /\ \A i \in 1..Len(a.params) :
                        TypesEqual(a.params[i].type, b.params[i].type)
                 /\ TypesEqual(a.ret, b.ret)
            ELSE FALSE
      [] a.kind = "Struct" ->
            IF b.kind = "Struct" THEN StructCase(a, b) ELSE FALSE
      [] a.kind = "Tuple" ->
            IF b.kind = "Tuple"
            THEN /\ Len(a.elems) = Len(b.elems)
                 /\ \A i \in 1..Len(a.elems) :
                        TypesEqual(a.elems[i], b.elems[i])
            ELSE FALSE
      [] a.kind = "Data" ->
            IF b.kind = "Data" THEN a.name = b.name ELSE FALSE
      [] OTHER -> FALSE    \* MapType, GenericType, UnresolvedType, nil

-----------------------------------------------------------------------------
(* The constructed Type values the comparisons are drawn from              *)

PrimInputs == {"Int", "Bool", "String"}

GenericNames == {"t", "u"}

TypeNames == {"P", "Q"}

FieldNames == {"x", "y"}

\* what one struct field can be declared as
FieldInputs ==
    {StructField("x", PrimitiveType("Int"), ""),
     StructField("x", PrimitiveType("Int"), "0"),
     StructField("x", PrimitiveType("Bool"), ""),
     StructField("y", PrimitiveType("Int"), ""),
     StructField("y", GenericType("t"), "")}

FieldMaps ==
    UNION {{fs \in [D -> FieldInputs] : \A f \in D : fs[f].name = f} :
           D \in SUBSET FieldNames}

StructTypes == {StructType(n, fs) : n \in TypeNames, fs \in FieldMaps}

DataTypes == {DataType(n, cs) : n \in TypeNames, cs \in {{}, {"A"}}}

LeafTypes ==
    {PrimitiveType(n) : n \in PrimInputs}
      \cup {GenericType(n) : n \in GenericNames}
      \cup {UnresolvedType(n) : n \in TypeNames}
      \cup StructTypes \cup DataTypes

\* component types of the composite variants (one level of nesting inside)
ElemTypes ==
    {PrimitiveType("Int"), PrimitiveType("Bool"), GenericType("t"),
     StructType("P", [f \in {"x"} |-> StructField("x", PrimitiveType("Int"), "")]),
     ArrayType(PrimitiveType("Int")), NilType}

ParamInputs ==
    {ParameterType("", PrimitiveType("Int")),
     ParameterType("mut", PrimitiveType("Int")),
     ParameterType("", GenericType("t"))}

ReturnInputs == {PrimitiveType("Int"), GenericType("t"), NilType}

SeqsUpTo(S, n) == UNION {[1..k -> S] : k \in 0..n}

CompositeTypes ==
    {ArrayType(e) : e \in ElemTypes}
      \cup {MapType(k, v) : k \in {PrimitiveType("Int"), PrimitiveType("String")},
                            v \in ElemTypes}
      \cup {TupleType(es) : es \in SeqsUpTo(ElemTypes, MaxArity)}
      \cup {FunctionType(ps, r) : ps \in SeqsUpTo(ParamInputs, MaxArity),
                                  r \in ReturnInputs}

TypeInputs == LeafTypes \cup CompositeTypes

NoResult == [done |-> FALSE, ab |-> FALSE, ba |-> FALSE, aa |-> FALSE]

TypesInit ==
    /\ ta \in TypeInputs
    /\ tb \in TypeInputs
    /\ teq = NoResult


-----------------------------------------------------------------------------
(* Scope tree                                                              *)

ScopeGlobal == 0

ScopeModule == 1

ScopeFunction == 2

ScopeBlock == 3

ScopeLoop == 4

Names == {"a", "b"}

\* a named node (ast.Named / symbols.Symbol): GetName() is name,
\* GetLocation() is loc; id stands for the pointer identity of the object
Node(i, k, n, l) == [id |-> i, nkind |-> k, name |-> n, loc |-> l]

NoNode == Node(0, "none", "", 0)

NoErr == [isErr |-> FALSE, msg |-> "", name |-> "", loc |-> 0]

\* fmt.Errorf("symbol %q already defined at %v", name, existing.GetLocation())
AlreadyDefined(n, l) == [isErr |-> TRUE, msg |-> "already defined", name |-> n, loc |-> l]

\* Go maps from a name to a node, kept as the set of their values
\* (every map of the table is keyed by the node's own name)
MapHas(m, k) == \E n \in m : n.name = k

MapGet(m, k) == IF MapHas(m, k) THEN CHOOSE n \in m : n.name = k ELSE NoNode

MapPut(m, k, v) == {n \in m : n.name # k} \cup {v}

\* NewScope(parent, kind) on the arena: the new scope gets the next index and
\* is appended to its parent's Children when the parent is not nil
NewScope(scs, parent, kind) ==
    LET s == [parent |-> parent, children |-> <<>>, symbols |-> {}, kind |-> kind]
        id == Len(scs) + 1
    IN  IF parent # 0
        THEN [Append(scs, s) EXCEPT ![parent].children = Append(@, id)]
        ELSE Append(scs, s)

\* mutant: a second definition silently replaces the first
DefineOverwrite(syms, node) ==
    [err |-> NoErr, symbols |-> MapPut(syms, node.name, node)]

\* Scope.Define on the scope's Symbols map: the error and the map afterwards
Define(syms, node) ==
    IF MapHas(syms, node.name)
    THEN [err |-> AlreadyDefined(node.name, MapGet(syms, node.name).loc),
          symbols |-> syms]
    ELSE [err |-> NoErr, symbols |-> MapPut(syms, node.name, node)]

NotFound == [found |-> FALSE, node |-> NoNode]

\* mutant: the parent chain is searched from the outermost scope inwards
RECURSIVE LookupOutermost(_, _, _)
LookupOutermost(scs, s, name) ==
    LET up == IF scs[s].parent # 0
              THEN LookupOutermost(scs, scs[s].parent, name) ELSE NotFound
    IN  IF up.found THEN up
        ELSE IF MapHas(scs[s].symbols, name)
             THEN [found |-> TRUE, node |-> MapGet(scs[s].symbols, name)]
             ELSE NotFound

\* Scope.Lookup
RECURSIVE Lookup(_, _, _)
Lookup(scs, s, name) ==
    IF MapHas(scs[s].symbols, name)
    THEN [found |-> TRUE, node |-> MapGet(scs[s].symbols, name)]
    ELSE IF scs[s].parent # 0
         THEN Lookup(scs, scs[s].parent, name)
         ELSE NotFound

\* Scope.LookupLocal
LookupLocal(scs, s, name) ==
    [found |-> MapHas(scs[s].symbols, name), node |-> MapGet(scs[s].symbols, name)]

Op(o, s, n, nd, f, e) ==
    [op |-> o, scope |-> s, name |-> n, node |-> nd, found |-> f, err |-> e]

NoOp == Op("none", 0, "", NoNode, FALSE, NoErr)

\* NewSymbolTable(): a global scope without parent (NewScope(nil, ScopeGlobal))
\* and empty registries
TableInit ==
    /\ scopes = NewScope(<<>>, 0, ScopeGlobal)
    /\ Types = {}
    /\ Functions = {}
    /\ Traits = {}
    /\ TraitImpls = <<>>
    /\ nextId = 1
    /\ lastOp = NoOp

\* the type algebra is not exercised by the scope and table specifications
TypesIdle ==
    /\ ta = NilType
    /\ tb = NilType
    /\ teq = NoResult

\* no Collector runs in the scope, table and type specifications
CollectIdle ==
    /\ cst = <<>>
    /\ pos = 1
    /\ visited = <<>>
    /\ statements = <<>>
    /\ errors = <<>>
    /\ panicked = FALSE

\* an absent (nil) CST node
NoCst == [kind |-> "nil", text |-> "", kids |-> <<>>]

\* NewChecker has not run
CheckIdle ==
    /\ cpos = 1
    /\ cscope = 1
    /\ terrors = <<>>
    /\ lastType = NilType
    /\ cpanicked = FALSE
    /\ cexpr = NoCst

ScopeKindInputs == {ScopeFunction, ScopeBlock}

ScopeIds == 1..Len(scopes)

DoNewScope(parent, kind) ==
    /\ Len(scopes) < MaxScopes
    /\ scopes' = NewScope(scopes, parent, kind)
    /\ lastOp' = Op("NewScope", Len(scopes) + 1, "", NoNode, FALSE, NoErr)
    /\ UNCHANGED <<Types, Functions, Traits, TraitImpls, nextId>>
    /\ UNCHANGED <<typeVars, collectVars, checkVars>>

\* s.Define(node) with a freshly built node; only a node that gets bound
\* takes up an identity, a rejected one is dropped by the caller
DoDefine(s, name) ==
    /\ nextId <= MaxDefs \/ MapHas(scopes[s].symbols, name)
    /\ LET node == Node(nextId, "var", name, nextId)
           r == Define(scopes[s].symbols, node)
       IN  /\ scopes' = [scopes EXCEPT ![s].symbols = r.symbols]
           /\ nextId' = IF r.err.isErr THEN nextId ELSE nextId + 1
           /\ lastOp' = Op("Define", s, name, node, FALSE, r.err)
    /\ UNCHANGED <<Types, Functions, Traits, TraitImpls>>
    /\ UNCHANGED <<typeVars, collectVars, checkVars>>

DoLookup(s, name) ==
    /\ LET r == Lookup(scopes, s, name)
       IN  lastOp' = Op("Lookup", s, name, r.node, r.found, NoErr)
    /\ UNCHANGED <<scopes, Types, Functions, Traits, TraitImpls, nextId>>
    /\ UNCHANGED <<typeVars, collectVars, checkVars>>

DoLookupLocal(s, name) ==
    /\ LET r == LookupLocal(scopes, s, name)
       IN  lastOp' = Op("LookupLocal", s, name, r.node, r.found, NoErr)
    /\ UNCHANGED <<scopes, Types, Functions, Traits, TraitImpls, nextId>>
    /\ UNCHANGED <<typeVars, collectVars, checkVars>>

ScopeInit == TypesIdle /\ TableInit /\ CollectIdle /\ CheckIdle

ScopeNext ==
    \/ \E p \in ScopeIds, k \in ScopeKindInputs : DoNewScope(p, k)
    \/ \E s \in ScopeIds, n \in Names : DoDefine(s, n)
    \/ \E s \in ScopeIds, n \in Names : DoLookup(s, n)
    \/ \E s \in ScopeIds, n \in Names : DoLookupLocal(s, n)

SpecScope == ScopeInit /\ [][ScopeNext]_vars

-----------------------------------------------------------------------------
(* Scope tree: claims                                                      *)

\* the scopes on the parent chain of s: s and all its ancestors
Chain(scs, s) ==
    CHOOSE A \in SUBSET (1..Len(scs)) :
        /\ s \in A
        /\ \A x \in A : /\ scs[x].parent # 0 => scs[x].parent \in A
                        /\ x # s => \E c \in A : scs[c].parent = x

\* the scopes on the chain of s that bind name
Hits(scs, s, name) ==
    {x \in Chain(scs, s) : MapHas(scs[x].symbols, name)}

\* the member of a set of chain scopes nearest to the start of the chain:
\* every other member is one of its ancestors
Nearest(scs, H) == CHOOSE x \in H : H \subseteq Chain(scs, x)

Min(S) == CHOOSE i \in S : \A j \in S : i <= j

UniquePerScope ==
    \A s \in ScopeIds : \A n1, n2 \in scopes[s].symbols :
        n1.name = n2.name => n1 = n2

DefineStep ==
    /\ UniquePerScope'
    /\ \A s \in ScopeIds : \A m \in scopes[s].symbols :
          /\ m \in scopes'[s].symbols
          /\ Lookup(scopes', s, m.name) = [found |-> TRUE, node |-> m]
    /\ lastOp'.op = "Define" =>
          LET s == lastOp'.scope
              n == lastOp'.name
              old == scopes[s].symbols
          IN  IF MapHas(old, n)
              THEN /\ lastOp'.err = AlreadyDefined(n, MapGet(old, n).loc)
                   /\ scopes' = scopes
              ELSE /\ lastOp'.err = NoErr
                   /\ scopes' = [scopes EXCEPT ![s].symbols = old \cup {lastOp'.node}]

\* C1: in every scope each name is bound at most once; a Define of a name the
\* scope already binds returns an error carrying the original definition's
\* location and leaves the bindings unchanged, a Define of a fresh name adds
\* exactly that binding; a binding, once made, stays and is what Lookup finds.
DefineOnce == [][DefineStep]_vars

\* a rejected second definition: the scope still resolves the name to the first
WitnessDuplicateDefine ==
    /\ lastOp.op = "Define"
    /\ lastOp.err.isErr
    /\ lastOp.err.loc # lastOp.node.loc
    /\ Lookup(scopes, lastOp.scope, lastOp.name).found
    /\ Lookup(scopes, lastOp.scope, lastOp.name).node.loc = lastOp.err.loc

LookupStep ==
    /\ lastOp'.op = "Lookup" =>
          LET s == lastOp'.scope
              n == lastOp'.name
              h == Hits(scopes, s, n)
          IN  /\ scopes' = scopes
              /\ lastOp'.found = (h # {})
              /\ h # {} => /\ lastOp'.node \in scopes[Nearest(scopes, h)].symbols
                           /\ lastOp'.node.name = n
              /\ h = {} => lastOp'.node = NoNode
    /\ lastOp'.op = "LookupLocal" =>
          LET s == lastOp'.scope
              n == lastOp'.name
              own == {m \in scopes[s].symbols : m.name = n}
          IN  /\ scopes' = scopes
              /\ lastOp'.found = (own # {})
              /\ own # {} => lastOp'.node \in own
              /\ own = {} => lastOp'.node = NoNode

\* C2: Lookup(name) on scope s returns the binding of the nearest scope on the
\* parent chain of s (s first) that binds name, and "not found" when none does;
\* LookupLocal(name) returns only a binding of s itself; neither call changes
\* any scope.
LookupNearest == [][LookupStep]_vars

\* a Lookup answered by a proper ancestor that shadows an outer binding
WitnessShadowedLookup ==
    /\ lastOp.op = "Lookup"
    /\ lastOp.found
    /\ lastOp.node \notin scopes[lastOp.scope].symbols
    /\ Cardinality(Hits(scopes, lastOp.scope, lastOp.name)) >= 2

-----------------------------------------------------------------------------
(* SymbolTable                                                             *)

RECURSIVE Join(_)
\* strings.Join(names, ", ")
Join(names) ==
    IF Len(names) = 0 THEN ""
    ELSE IF Len(names) = 1 THEN names[1]
    ELSE names[1] \o ", " \o Join(Tail(names))

RECURSIVE GetName(_)
\* Type.GetName(); a nil component prints as "?"
GetName(t) ==
    LET nameOf(c) == IF c = NilType THEN "?" ELSE GetName(c)
        paramName(p) ==
            IF p.type # NilType
            THEN (IF p.modifier # "" THEN p.modifier \o " " ELSE "") \o GetName(p.type)
            ELSE (IF p.modifier # "" THEN p.modifier \o " " ELSE "")
    IN  CASE t.kind = "Array" -> "Array<" \o nameOf(t.elem) \o ">"
          [] t.kind = "Map" ->
                "Map<" \o nameOf(t.key) \o ", " \o nameOf(t.value) \o ">"
          [] t.kind = "Tuple" ->
                "(" \o Join([i \in 1..Len(t.elems) |-> nameOf(t.elems[i])]) \o ")"
          [] t.kind = "Function" ->
                "(" \o Join([i \in 1..Len(t.params) |-> paramName(t.params[i])])
                    \o ") -> " \o nameOf(t.ret)
          [] OTHER -> t.name

\* TraitImplSymbol.GetName()
ImplName(trait, forType) == trait \o " for " \o GetName(forType)

GlobalSymbols == scopes[1].symbols

\* mutant: the registry is written before the scope is asked
RegisterFunctionUnchecked(gsyms, reg, node) ==
    LET r == Define(gsyms, node)
    IN  [err |-> r.err, symbols |-> r.symbols, reg |-> MapPut(reg, node.name, node)]

\* mutant: the type is bound in the scope but never entered in Types
RegisterTypeScopeOnly(gsyms, reg, node) ==
    LET r == Define(gsyms, node)
    IN  [err |-> r.err, symbols |-> r.symbols, reg |-> reg]

\* SymbolTable.RegisterType
RegisterType(gsyms, reg, node) ==
    LET r == Define(gsyms, node)
    IN  IF r.err.isErr
        THEN [err |-> r.err, symbols |-> gsyms, reg |-> reg]
        ELSE [err |-> NoErr, symbols |-> r.symbols, reg |-> MapPut(reg, node.name, node)]

\* SymbolTable.RegisterFunction
RegisterFunction(gsyms, reg, node) ==
    LET r == Define(gsyms, node)
    IN  IF r.err.isErr
        THEN [err |-> r.err, symbols |-> gsyms, reg |-> reg]
        ELSE [err |-> NoErr, symbols |-> r.symbols, reg |-> MapPut(reg, node.name, node)]

\* SymbolTable.RegisterTrait
RegisterTrait(gsyms, reg, node) ==
    LET r == Define(gsyms, node)
    IN  IF r.err.isErr
        THEN [err |-> r.err, symbols |-> gsyms, reg |-> reg]
        ELSE [err |-> NoErr, symbols |-> r.symbols, reg |-> MapPut(reg, node.name, node)]

\* SymbolTable.RegisterTraitImpl
RegisterTraitImpl(gsyms, impls, node) ==
    LET r == Define(gsyms, node)
    IN  IF r.err.isErr
        THEN [err |-> r.err, symbols |-> gsyms, reg |-> impls]
        ELSE [err |-> NoErr, symbols |-> r.symbols, reg |-> Append(impls, node)]

\* SymbolTable.RegisterVariable
RegisterVariable(gsyms, node) == Define(gsyms, node)

ImplTypeInputs == {PrimitiveType("Int"), ArrayType(UnresolvedType("P"))}

DoRegisterType(name) ==
    /\ nextId <= MaxRegs \/ MapHas(GlobalSymbols, name)
    /\ LET node == Node(nextId, "type", name, nextId)
           r == RegisterType(GlobalSymbols, Types, node)
       IN  /\ scopes' = [scopes EXCEPT ![1].symbols = r.symbols]
           /\ Types' = r.reg
           /\ nextId' = IF r.err.isErr THEN nextId ELSE nextId + 1
           /\ lastOp' = Op("RegisterType", 1, name, node, FALSE, r.err)
    /\ UNCHANGED <<Functions, Traits, TraitImpls>>
    /\ UNCHANGED <<typeVars, collectVars, checkVars>>

DoRegisterFunction(name) ==
    /\ nextId <= MaxRegs \/ MapHas(GlobalSymbols, name)
    /\ LET node == Node(nextId, "func", name, nextId)
           r == RegisterFunction(GlobalSymbols, Functions, node)
       IN  /\ scopes' = [scopes EXCEPT ![1].symbols = r.symbols]
           /\ Functions' = r.reg
           /\ nextId' = IF r.err.isErr THEN nextId ELSE nextId + 1
           /\ lastOp' = Op("RegisterFunction", 1, name, node, FALSE, r.err)
    /\ UNCHANGED <<Types, Traits, TraitImpls>>
    /\ UNCHANGED <<typeVars, collectVars, checkVars>>

DoRegisterVariable(name) ==
    /\ nextId <= MaxRegs \/ MapHas(GlobalSymbols, name)
    /\ LET node == Node(nextId, "var", name, nextId)
           r == RegisterVariable(GlobalSymbols, node)
       IN  /\ scopes' = [scopes EXCEPT ![1].symbols = r.symbols]
           /\ nextId' = IF r.err.isErr THEN nextId ELSE nextId + 1
           /\ lastOp' = Op("RegisterVariable", 1, name, node, FALSE, r.err)
    /\ UNCHANGED <<Types, Functions, Traits, TraitImpls>>
    /\ UNCHANGED <<typeVars, collectVars, checkVars>>

DoRegisterTrait(name) ==
    /\ nextId <= MaxRegs \/ MapHas(GlobalSymbols, name)
    /\ LET node == Node(nextId, "trait", name, nextId)
           r == RegisterTrait(GlobalSymbols, Traits, node)
       IN  /\ scopes' = [scopes EXCEPT ![1].symbols = r.symbols]
           /\ Traits' = r.reg
           /\ nextId' = IF r.err.isErr THEN nextId ELSE nextId + 1
           /\ lastOp' = Op("RegisterTrait", 1, name, node, FALSE, r.err)
    /\ UNCHANGED <<Types, Functions, TraitImpls>>
    /\ UNCHANGED <<typeVars, collectVars, checkVars>>

DoRegisterTraitImpl(trait, forType) ==
    /\ nextId <= MaxRegs \/ MapHas(GlobalSymbols, ImplName(trait, forType))
    /\ LET node == Node(nextId, "impl", ImplName(trait, forType), nextId)
           r == RegisterTraitImpl(GlobalSymbols, TraitImpls, node)
       IN  /\ scopes' = [scopes EXCEPT ![1].symbols = r.symbols]
           /\ TraitImpls' = r.reg
           /\ nextId' = IF r.err.isErr THEN nextId ELSE nextId + 1
           /\ lastOp' = Op("RegisterTraitImpl", 1, node.name, node, FALSE, r.err)
    /\ UNCHANGED <<Types, Functions, Traits>>
    /\ UNCHANGED <<typeVars, collectVars, checkVars>>

TableNext ==
    \/ \E n \in Names : DoRegisterType(n)
    \/ \E n \in Names : DoRegisterFunction(n)
    \/ \E n \in Names : DoRegisterVariable(n)
    \/ \E n \in Names : DoRegisterTrait(n)
    \/ \E n \in Names, t \in ImplTypeInputs : DoRegisterTraitImpl(n, t)

SpecTable == ScopeInit /\ [][TableNext]_vars

-----------------------------------------------------------------------------
(* SymbolTable: claims                                                     *)

RegistryOps == {"RegisterType", "RegisterFunction", "RegisterTrait", "RegisterTraitImpl"}

ImplSet(impls) == {impls[i] : i \in 1..Len(impls)}

\* the registry a Register* call is responsible for, as a set of nodes
RegistryOf(op, ty, fn, tr, im) ==
    CASE op = "RegisterType" -> ty
      [] op = "RegisterFunction" -> fn
      [] op = "RegisterTrait" -> tr
      [] op = "RegisterTraitImpl" -> ImplSet(im)

RegisterStep ==
    lastOp'.op \in RegistryOps =>
        LET n == lastOp'.name
            before == RegistryOf(lastOp'.op, Types, Functions, Traits, TraitImpls)
            after == RegistryOf(lastOp'.op, Types', Functions', Traits', TraitImpls')
        IN  IF MapHas(GlobalSymbols, n)
            THEN /\ lastOp'.err = AlreadyDefined(n, MapGet(GlobalSymbols, n).loc)
                 /\ <<Types', Functions', Traits', TraitImpls'>> =
                        <<Types, Functions, Traits, TraitImpls>>
                 /\ scopes' = scopes
            ELSE /\ lastOp'.err = NoErr
                 /\ lastOp'.node \in scopes'[1].symbols
                 /\ after = before \cup {lastOp'.node}

\* C3: RegisterType, RegisterFunction, RegisterTrait and RegisterTraitImpl first
\* Define the node in the global scope; when the name is already bound there
\* by a binding of any kind, no registry and no binding changes and the
\* "already defined" error is returned; otherwise the node is bound in the
\* global scope and entered in the call's registry.
RegisterDefinesFirst == [][RegisterStep]_vars

\* a function rejected because a type, variable or trait already has its name
WitnessCrossKindCollision ==
    /\ lastOp.op = "RegisterFunction"
    /\ lastOp.err.isErr
    /\ MapGet(GlobalSymbols, lastOp.name).nkind \in {"type", "var", "trait"}
    /\ ~MapHas(Functions, lastOp.name)

\* C4: Types and Functions stay in sync with the global scope: every node in
\* Types or Functions is the node the global scope binds under that name, no
\* name is in both, and every type declaration or function definition bound in
\* the global scope is in the corresponding registry.
RegistriesInSync ==
    /\ \A n \in Types \cup Functions : n \in GlobalSymbols
    /\ \A t \in Types : \A f \in Functions : t.name # f.name
    /\ \A n \in GlobalSymbols :
          /\ n.nkind = "type" => n \in Types
          /\ n.nkind = "func" => n \in Functions

\* both registries filled, after at least one registration was rejected
WitnessRegistriesFilled ==
    /\ Types # {}
    /\ Functions # {}
    /\ lastOp.err.isErr

-----------------------------------------------------------------------------
(* Collector: the CST it reads                                             *)

\* number of top-level children of the CST root
MaxTop == 3

\* a CST type node: its kind tag, its source text and its named children
TypeNode(k, t, ks) == [kind |-> k, text |-> t, kids |-> ks]

\* a parameter_type node: the "modifier" field's text ("" when absent) and
\* the "type" field (NoCst when absent)
ParamNode(m, t) == [modifier |-> m, type |-> t]

\* a function_type node: the parameter_type children of its "parameter_types"
\* field and its "return_type" field (NoCst when absent)
FnTypeNode(ps, r) == [kind |-> "function_type", params |-> ps, ret |-> r]

NoFnType == [kind |-> "nil", params |-> <<>>, ret |-> NoCst]

\* a top-level CST node:
\*   kind    its kind tag
\*   variant type_declaration: the kind of its declaring child;
\*           expression_statement: "expr" when an expression is found in it
\*   name    the declared name
\*   ann     declaration: the "type" field of its type_annotation (NoCst when
\*           the declaration has no annotation)
\*   sig     function_definition: the function_type of its signature (NoFnType
\*           when the signature has none)
\*   fields  struct_type: the fields of its body (FieldNode);
\*           data_type: its constructors, as (name, parameter type) pairs
\*   missing the required fields ("keyword", "name", "value") of a declaration
\*           that are absent from the node
\*   value   declaration: its "value" field, an expression node (NoCst when
\*           absent)
\*   clauses function_definition: its function_clause and function_clause_list
\*           children, in source order
TopNode(k, v, n, a, sg, fs) ==
    [kind |-> k, variant |-> v, name |-> n, ann |-> a, sig |-> sg, fields |-> fs,
     missing |-> {}, value |-> NoCst, clauses |-> <<>>]

\* an expression node: its kind tag, its source text and its named children
\* (for a boolean_expr: its "left" and "right" fields)
ExprNode(k, t, ks) == [kind |-> k, text |-> t, kids |-> ks]

\* a parameter node: the kind and text of its "pattern" field ("nil" when the
\* field is absent)
PatternNode(k, t) == [kind |-> k, text |-> t]

\* a function_clause node: the parameter children of its "parameters" field,
\* its "guard" field and its "body" field (NoCst when absent)
ClauseNode(ps, g, b) == [kind |-> "function_clause", params |-> ps, guard |-> g, body |-> b]

\* a function_clause_list node with its children; children that are not
\* function_clause nodes carry another kind tag
ClauseListNode(ks) == [kind |-> "function_clause_list", kids |-> ks]

\* node with the given value field / clause children
WithValue(node, e) == [node EXCEPT !.value = e]

WithClauses(node, cs) == [node EXCEPT !.clauses = cs]

\* node with the fields of ms absent
Without(node, ms) == [node EXCEPT !.missing = ms]

IntNode == TypeNode("signed_integer_type", "Int", <<>>)

TupleNode == TypeNode("tuple_type", "(Int, Int)", <<>>)

GenericNode == TypeNode("generic_type", "t", <<>>)

\* an array_type node without a named child (its element type is missing)
EmptyArrayNode == TypeNode("array_type", "[]", <<>>)

\* a field of a struct_type_body: the text of its field_name child, the type
\* node inside its field_type child, and the text of its default value ("" when
\* the field has none)
FieldNode(n, t, d) == [name |-> n, type |-> t, default |-> d]

\* the field_type child of a struct field: a node of kind "field_type" around
\* the type node
FieldTypeNode(t) == TypeNode("field_type", t.text, <<t>>)

IdentNode(n) == ExprNode("identifier", n, <<>>)

\* (n) if n < 2 => n
GuardedClause ==
    ClauseNode(<<PatternNode("identifier", "n")>>,
               ExprNode("boolean_expr", "n < 2",
                        <<IdentNode("n"), ExprNode("integer_literal", "2", <<>>)>>),
               IdentNode("n"))

\* (n) => a(n)
PlainClause ==
    ClauseNode(<<PatternNode("identifier", "n")>>, NoCst,
               ExprNode("call_expression", "a(n)", <<IdentNode("a"), IdentNode("n")>>))

\* (0) if 'x' => 0: the guard is a char_literal, a leaf of a kind
\* collectExpression has no case for
CharGuardClause ==
    ClauseNode(<<PatternNode("literal_pattern", "0")>>,
               ExprNode("char_literal", "'x'", <<>>),
               ExprNode("integer_literal", "0", <<>>))

\* a child that is no function_clause (the separator of a clause list)
CommaNode == [kind |-> ","]

TopInputs ==
    {TopNode("declaration", "", n, a, NoFnType, <<>>) :
         n \in Names, a \in {NoCst, TupleNode}}
      \cup {TopNode("declaration", "", "a", TypeNode("array_type", "[]Int", <<IntNode>>),
                    NoFnType, <<>>),
            TopNode("declaration", "", "b", EmptyArrayNode, NoFnType, <<>>),
            Without(TopNode("declaration", "", "", NoCst, NoFnType, <<>>), {"name"}),
            Without(TopNode("declaration", "", "a", NoCst, NoFnType, <<>>), {"value"}),
            TopNode("const_declaration", "", "b", IntNode, NoFnType, <<>>)}
      \cup {WithClauses(TopNode("function_definition", "", "a", NoCst,
                                FnTypeNode(<<ParamNode("", GenericNode)>>, GenericNode),
                                <<>>),
                        <<ClauseListNode(<<GuardedClause, CommaNode, PlainClause>>)>>),
            WithClauses(TopNode("function_definition", "", "b", NoCst,
                                FnTypeNode(<<ParamNode("", GenericNode)>>, GenericNode),
                                <<>>),
                        <<CharGuardClause>>),
            WithClauses(TopNode("function_definition", "", "a", NoCst,
                                FnTypeNode(<<ParamNode("mut", NoCst), ParamNode("", IntNode)>>,
                                           TupleNode), <<>>),
                        <<PlainClause, ClauseListNode(<<GuardedClause>>)>>)}
      \cup {TopNode("type_declaration", "struct_type", n, NoCst, NoFnType,
                    <<FieldNode("x", IntNode, "")>>) : n \in Names}
      \cup {TopNode("type_declaration", "struct_type", "a", NoCst, NoFnType,
                    <<FieldNode("x", IntNode, ""), FieldNode("y", IntNode, "0")>>)}
      \cup {TopNode("type_declaration", "data_type", "b", NoCst, NoFnType,
                    <<[name |-> "A", type |-> GenericNode]>>),
            TopNode("type_declaration", "trait_declaration", "a", NoCst, NoFnType, <<>>),
            TopNode("expression_statement", "expr", "", NoCst, NoFnType, <<>>),
            TopNode("expression_statement", "", "", NoCst, NoFnType, <<>>),
            TopNode("comment", "", "", NoCst, NoFnType, <<>>)}

-----------------------------------------------------------------------------
(* Collector: type annotations                                             *)

\* fmt.Errorf("parseType: unknown type node kind: %s", node.Kind())
UnknownTypeKind(k) ==
    [isErr |-> TRUE, msg |-> "parseType: unknown type node kind", name |-> k, loc |-> 0]

\* fmt.Errorf("parseParameterType: type node is nil")
NilParameterType ==
    [isErr |-> TRUE, msg |-> "parseParameterType: type node is nil", name |-> "", loc |-> 0]

\* the result of a parse: the Type (NilType for nil) and the errors appended
Parsed(t, es) == [type |-> t, errs |-> es]

RECURSIVE parseType(_)
\* Collector.parseType with parseArrayType and parseMapType
parseType(node) ==
    CASE node.kind = "nil" -> Parsed(NilType, <<>>)
      [] node.kind \in {"signed_integer_type", "unsigned_integer_type", "float_type"} ->
            Parsed(PrimitiveType(node.text), <<>>)
      [] node.kind = "string_type" -> Parsed(PrimitiveType("String"), <<>>)
      [] node.kind = "boolean_type" -> Parsed(PrimitiveType("Bool"), <<>>)
      [] node.kind = "user_defined_type_name" -> Parsed(UnresolvedType(node.text), <<>>)
      [] node.kind = "generic_type" -> Parsed(GenericType(node.text), <<>>)
      [] node.kind = "array_type" ->
            IF Len(node.kids) = 0 THEN Parsed(ArrayType(NilType), <<>>)
            ELSE LET e == parseType(node.kids[1])
                 IN  Parsed(ArrayType(e.type), e.errs)
      [] node.kind = "map_type" ->
            LET ks == SelectSeq(node.kids, LAMBDA c : c.kind = "key_type")
                vs == SelectSeq(node.kids, LAMBDA c : c.kind = "value_type")
                sub(c) == IF Len(c.kids) = 0 THEN Parsed(NilType, <<>>)
                          ELSE parseType(c.kids[Len(c.kids)])
                k == IF Len(ks) = 0 THEN Parsed(NilType, <<>>) ELSE sub(ks[Len(ks)])
                v == IF Len(vs) = 0 THEN Parsed(NilType, <<>>) ELSE sub(vs[Len(vs)])
            IN  Parsed(MapType(k.type, v.type), k.errs \o v.errs)
      [] OTHER -> Parsed(NilType, <<UnknownTypeKind(node.kind)>>)

\* mutant: a missing type node yields the zero ParameterType without an error
parseParameterTypeSilently(node) ==
    IF node.type.kind = "nil"
    THEN [param |-> ParameterType("", NilType), errs |-> <<>>]
    ELSE LET t == parseType(node.type)
         IN  [param |-> ParameterType(node.modifier, t.type), errs |-> t.errs]

\* Collector.parseParameterType: [param, errs]
parseParameterType(node) ==
    IF node.type.kind = "nil"
    THEN [param |-> ParameterType("", NilType), errs |-> <<NilParameterType>>]
    ELSE LET t == parseType(node.type)
         IN  [param |-> ParameterType(node.modifier, t.type), errs |-> t.errs]

RECURSIVE FlattenErrs(_)
FlattenErrs(ss) == IF Len(ss) = 0 THEN <<>> ELSE Head(ss) \o FlattenErrs(Tail(ss))

\* a nil *types.FunctionType (a signature without function_type)
NilSignature == [kind |-> "Nil"]

\* Collector.parseFunctionType
parseFunctionType(node) ==
    LET ps == [i \in 1..Len(node.params) |-> parseParameterType(node.params[i])]
        r == parseType(node.ret)
    IN  Parsed(FunctionType([i \in 1..Len(ps) |-> ps[i].param], r.type),
               FlattenErrs([i \in 1..Len(ps) |-> ps[i].errs]) \o r.errs)

RECURSIVE collectStructFields(_)
\* Collector.collectStructFields over the fields of the body: parseType is
\* handed the field_type child itself; default values are not read; a later
\* field of the same name overwrites the earlier one
collectStructFields(fs) ==
    IF Len(fs) = 0 THEN Parsed(<<>>, <<>>)
    ELSE LET n == Len(fs)
             init == collectStructFields(SubSeq(fs, 1, n - 1))
             t == parseType(FieldTypeNode(fs[n].type))
             f == StructField(fs[n].name, t.type, "")
         IN  Parsed([x \in DOMAIN init.type \cup {fs[n].name} |->
                        IF x = fs[n].name THEN f ELSE init.type[x]],
                    init.errs \o t.errs)

\* collectDataType with collectDataConstructor over the (constructor name,
\* parameter) pairs: the constructors' names; a same-named constructor
\* overwrites the earlier one, and no error is ever recorded here
collectDataConstructors(cs) == {cs[i].name : i \in 1..Len(cs)}

-----------------------------------------------------------------------------
(* Collector: the pass                                                     *)

\* an AST statement node; loc is nodeLocation(child), the child's place in the
\* source; id stands for the pointer identity of the node; clauses are the
\* Clauses of a FunctionDefStmt
AstNode(k, n, l, t) ==
    [id |-> l, nkind |-> k, name |-> n, loc |-> l, type |-> t, clauses |-> <<>>]

\* a nil pointer of a statement type, stored in the ast.AstNode interface
NilStmt ==
    [id |-> 0, nkind |-> "nil", name |-> "", loc |-> 0, type |-> NilType, clauses |-> <<>>]

\* a nil ast.Expression
NilExpr == [kind |-> "Nil"]

RECURSIVE collectExpression(_)
\* Collector.collectExpression
collectExpression(node) ==
    CASE node.kind = "nil" -> NilExpr
      [] node.kind \in {"integer", "integer_literal"} ->
            [kind |-> "IntegerLiteralExpr", text |-> node.text]
      [] node.kind \in {"float", "float_literal"} ->
            [kind |-> "FloatLiteralExpr", text |-> node.text]
      [] node.kind \in {"string", "string_literal"} ->
            [kind |-> "StringLiteralExpr", text |-> node.text]
      [] node.kind \in {"boolean", "boolean_literal"} ->
            [kind |-> "BooleanLiteralExpr", text |-> node.text]
      [] node.kind = "identifier" -> [kind |-> "IdentifierExpr", text |-> node.text]
      [] node.kind = "boolean_expr" ->
            [kind |-> "BooleanBinaryOpExpr", text |-> node.text,
             left |-> collectExpression(IF Len(node.kids) >= 1 THEN node.kids[1] ELSE NoCst),
             right |-> collectExpression(IF Len(node.kids) >= 2 THEN node.kids[2] ELSE NoCst)]
      [] OTHER -> IF Len(node.kids) > 0 THEN collectExpression(node.kids[1]) ELSE NilExpr

\* a nil ast.Pattern
NilPattern == [kind |-> "Nil", name |-> ""]

\* Collector.collectPattern
collectPattern(node) ==
    CASE node.kind = "identifier" -> [kind |-> "IdentifierPattern", name |-> node.text]
      [] node.kind = "literal_pattern" -> [kind |-> "LiteralPattern", name |-> node.text]
      [] OTHER -> NilPattern

\* Collector.collectFunctionClause with collectParameterPatterns
collectFunctionClause(node) ==
    [params |-> [i \in 1..Len(node.params) |-> collectPattern(node.params[i])],
     guard |-> collectExpression(node.guard),
     body |-> collectExpression(node.body)]

RECURSIVE collectClauses(_)
\* the child loop of collectFunctionDef: the clauses of the function_clause
\* children and of the function_clause children of function_clause_list
\* children, in source order
collectClauses(kids) ==
    IF Len(kids) = 0 THEN <<>>
    ELSE LET k == Head(kids)
         IN  (CASE k.kind = "function_clause" -> <<collectFunctionClause(k)>>
                [] k.kind = "function_clause_list" ->
                      LET cs == SelectSeq(k.kids, LAMBDA c : c.kind = "function_clause")
                      IN  [i \in 1..Len(cs) |-> collectFunctionClause(cs[i])]
                [] OTHER -> <<>>)
                 \o collectClauses(Tail(kids))

\* NewCollector(source) followed by Collect(root): the root's children are cst
CollectInit ==
    /\ TypesIdle
    /\ TableInit
    /\ CheckIdle
    /\ cst \in SeqsUpTo(TopInputs, MaxTop)
    /\ pos = 1
    /\ visited = <<>>
    /\ statements = <<>>
    /\ errors = <<>>
    /\ panicked = FALSE

\* c.nodeText(node.ChildByFieldName(f)) for each f of fields: ChildByFieldName
\* returns nil for an absent field, and nodeText reads the byte range of the
\* node it is given, which is a nil pointer dereference for nil
nodeTextPanics(node, fields) == node.missing \cap fields # {}

\* mutant: walkProgram returns at the first registration failure
NextChildAbortOnError(i, failed) == IF failed THEN Len(cst) + 1 ELSE i + 1

\* walkProgram's loop header: i++ whatever the iteration did
NextChild(i, failed) == i + 1

\* mutant: a failed registration is dropped instead of being recorded
RecordSilently(errs, parseErrs, regErr) == errs \o parseErrs

\* c.errors after one declaration: the errors of its type annotations, then
\* the registration error if there is one
Record(errs, parseErrs, regErr) ==
    IF regErr.isErr THEN (errs \o parseErrs) \o <<regErr>> ELSE errs \o parseErrs

\* the statement append that ends every matched case of walkProgram, the
\* (typed) nil results included
AppendStmt(stmt) == statements' = Append(statements, stmt)

\* case "declaration", "const_declaration": collectVariableDeclaration
CollectVariableDeclaration ==
    /\ ~panicked
    /\ pos <= Len(cst)
    /\ cst[pos].kind \in {"declaration", "const_declaration"}
    /\ IF nodeTextPanics(cst[pos], {"keyword", "name"})
       THEN /\ panicked' = TRUE
            /\ UNCHANGED <<scopes, errors, statements, pos, visited>>
       ELSE LET ty == parseType(cst[pos].ann)
                node == AstNode("var", cst[pos].name, pos, ty.type)
                r == RegisterVariable(GlobalSymbols, node)
            IN  /\ scopes' = [scopes EXCEPT ![1].symbols = r.symbols]
                /\ errors' = Record(errors, ty.errs, r.err)
                /\ AppendStmt(node)
                /\ pos' = NextChild(pos, r.err.isErr)
                /\ visited' = Append(visited, pos)
                /\ UNCHANGED panicked
    /\ UNCHANGED <<Types, Functions, Traits, TraitImpls, nextId, lastOp, cst>>
    /\ UNCHANGED <<typeVars, checkVars>>

\* case "function_definition": collectFunctionDef
CollectFunctionDef ==
    /\ ~panicked
    /\ pos <= Len(cst)
    /\ cst[pos].kind = "function_definition"
    /\ LET sg == IF cst[pos].sig.kind = "nil" THEN Parsed(NilSignature, <<>>)
                 ELSE parseFunctionType(cst[pos].sig)
           node == [AstNode("func", cst[pos].name, pos, sg.type)
                       EXCEPT !.clauses = collectClauses(cst[pos].clauses)]
           r == RegisterFunction(GlobalSymbols, Functions, node)
       IN  /\ scopes' = [scopes EXCEPT ![1].symbols = r.symbols]
           /\ Functions' = r.reg
           /\ errors' = Record(errors, sg.errs, r.err)
           /\ AppendStmt(node)
           /\ pos' = NextChild(pos, r.err.isErr)
    /\ visited' = Append(visited, pos)
    /\ UNCHANGED <<Types, Traits, TraitImpls, nextId, lastOp, cst>>
    /\ UNCHANGED <<typeVars, checkVars, panicked>>

\* case "type_declaration": collectTypeDeclaration with collectStructType and
\* collectDataType; a declaration of another form yields a nil statement
CollectTypeDeclaration ==
    /\ ~panicked
    /\ pos <= Len(cst)
    /\ cst[pos].kind = "type_declaration"
    /\ IF cst[pos].variant \in {"struct_type", "data_type"}
       THEN LET fs == collectStructFields(cst[pos].fields)
                ty == IF cst[pos].variant = "struct_type"
                      THEN Parsed(StructType(cst[pos].name, fs.type), fs.errs)
                      ELSE Parsed(DataType(cst[pos].name, collectDataConstructors(cst[pos].fields)),
                                  <<>>)
                node == AstNode("type", cst[pos].name, pos, ty.type)
                r == RegisterType(GlobalSymbols, Types, node)
            IN  /\ scopes' = [scopes EXCEPT ![1].symbols = r.symbols]
                /\ Types' = r.reg
                /\ errors' = Record(errors, ty.errs, r.err)
                /\ AppendStmt(node)
                /\ pos' = NextChild(pos, r.err.isErr)
       ELSE /\ AppendStmt(NilStmt)
            /\ pos' = NextChild(pos, FALSE)
            /\ UNCHANGED <<scopes, Types, errors>>
    /\ visited' = Append(visited, pos)
    /\ UNCHANGED <<Functions, Traits, TraitImpls, nextId, lastOp, cst>>
    /\ UNCHANGED <<typeVars, checkVars, panicked>>

\* case "expression_statement": collectExpressionStatement; nothing is
\* registered, and a statement without expression yields a nil statement
CollectExpressionStatement ==
    /\ ~panicked
    /\ pos <= Len(cst)
    /\ cst[pos].kind = "expression_statement"
    /\ AppendStmt(IF cst[pos].variant = "expr"
                  THEN AstNode("expr", "", pos, NilType) ELSE NilStmt)
    /\ pos' = NextChild(pos, FALSE)
    /\ visited' = Append(visited, pos)
    /\ UNCHANGED <<scopes, Types, Functions, Traits, TraitImpls, nextId, lastOp>>
    /\ UNCHANGED <<cst, errors>>
    /\ UNCHANGED <<typeVars, checkVars, panicked>>

\* a child of any other kind: no case of the switch matches, stmt stays nil
SkipChild ==
    /\ ~panicked
    /\ pos <= Len(cst)
    /\ cst[pos].kind \notin {"type_declaration", "function_definition", "declaration",
                             "const_declaration", "expression_statement"}
    /\ pos' = NextChild(pos, FALSE)
    /\ visited' = Append(visited, pos)
    /\ UNCHANGED <<scopes, Types, Functions, Traits, TraitImpls, nextId, lastOp>>
    /\ UNCHANGED <<cst, statements, errors>>
    /\ UNCHANGED <<typeVars, checkVars, panicked>>

CollectNext ==
    \/ CollectTypeDeclaration
    \/ CollectFunctionDef
    \/ CollectVariableDeclaration
    \/ CollectExpressionStatement
    \/ SkipChild

SpecCollect == CollectInit /\ [][CollectNext]_vars

\* walkProgram has returned
CollectDone == pos > Len(cst)

-----------------------------------------------------------------------------
(* Collector: claims                                                       *)

\* the children walkProgram is through with
Processed == 1..(pos - 1)

\* child i declares a name: it is handed to RegisterVariable / RegisterFunction
\* / RegisterType
Registering(i) ==
    \/ cst[i].kind \in {"declaration", "const_declaration", "function_definition"}
    \/ cst[i].kind = "type_declaration" /\ cst[i].variant \in {"struct_type", "data_type"}

\* the first declaration of the name child i declares
FirstOf(i) == Min({j \in 1..i : Registering(j) /\ cst[j].name = cst[i].name})

\* the processed declarations of a name that was declared before
Redundant == {i \in Processed : Registering(i) /\ FirstOf(i) # i}

DupErrors == SelectSeq(errors, LAMBDA e : e.msg = "already defined")

\* child i has a type annotation, signature or field type the Collector cannot
\* parse
Malformed(i) ==
    \/ parseType(cst[i].ann).errs # <<>>
    \/ cst[i].sig.kind # "nil" /\ parseFunctionType(cst[i].sig).errs # <<>>
    \/ /\ cst[i].kind = "type_declaration"
       /\ cst[i].variant = "struct_type"
       /\ collectStructFields(cst[i].fields).errs # <<>>

\* C5: a program whose top-level declarations share names yields exactly one
\* duplicate-definition error per redundant declaration, in source order, and
\* each names the location of the first declaration of that name; without
\* malformed annotations these are all the collection errors there are.
OneErrorPerRedundant ==
    /\ Len(DupErrors) = Cardinality(Redundant)
    /\ \A i \in Redundant :
          DupErrors[Cardinality({j \in Redundant : j <= i})] =
              AlreadyDefined(cst[i].name, FirstOf(i))
    /\ (\A i \in Processed : ~Malformed(i)) => errors = DupErrors

\* three declarations of one name, of different kinds: two errors, both
\* naming the first
WitnessTripleDeclaration ==
    /\ CollectDone
    /\ \E i, j \in Redundant :
          /\ i < j
          /\ cst[i].name = cst[j].name
          /\ cst[i].kind # cst[FirstOf(i)].kind
    /\ Len(errors) = 2

\* child i makes walkProgram append a statement that is not nil
Produces(i) ==
    \/ Registering(i)
    \/ cst[i].kind = "expression_statement" /\ cst[i].variant = "expr"

Collected == SelectSeq(statements, LAMBDA st : st.nkind # "nil")

StmtKind(i) ==
    CASE cst[i].kind \in {"declaration", "const_declaration"} -> "var"
      [] cst[i].kind = "function_definition" -> "func"
      [] cst[i].kind = "type_declaration" -> "type"
      [] OTHER -> "expr"

\* C6: walkProgram dispatches on every top-level child exactly once, in source
\* order, and a registration failure does not end the pass: when it returns,
\* every child was visited, Statements holds the collected statements in source
\* order, and every first declaration of a name is bound in the global scope,
\* also when it follows a duplicate.
CollectVisitsAll ==
    /\ pos \in 1..(Len(cst) + 1)
    /\ visited = [i \in Processed |-> i]
    /\ CollectDone => Len(visited) = Len(cst)
    /\ Len(Collected) = Cardinality({i \in Processed : Produces(i)})
    /\ \A i \in Processed : Produces(i) =>
          LET st == Collected[Cardinality({j \in Processed : Produces(j) /\ j <= i})]
          IN  st.loc = i /\ st.name = cst[i].name /\ st.nkind = StmtKind(i)
    /\ \A i \in Processed : (Registering(i) /\ FirstOf(i) = i) =>
          \E n \in GlobalSymbols : n.loc = i /\ n.name = cst[i].name

\* a declaration that follows a rejected duplicate and is registered
WitnessRegisteredAfterDuplicate ==
    /\ CollectDone
    /\ \E i \in Redundant : \E j \in Processed :
          /\ i < j
          /\ Registering(j) /\ FirstOf(j) = j
          /\ \E n \in GlobalSymbols : n.loc = j
    /\ Len(statements) = Len(cst)

-----------------------------------------------------------------------------
(* Applying TypesEqual                                                     *)

\* one run of the comparisons a caller can make on the pair
Compare ==
    /\ ~teq.done
    /\ teq' = [done |-> TRUE,
               ab |-> TypesEqual(ta, tb), ba |-> TypesEqual(tb, ta),
               aa |-> TypesEqual(ta, ta)]
    /\ UNCHANGED <<ta, tb>>
    /\ UNCHANGED <<tableVars, collectVars, checkVars>>

CompareInit == TypesInit /\ TableInit /\ CollectIdle /\ CheckIdle

SpecTypes == CompareInit /\ [][Compare]_vars

-----------------------------------------------------------------------------
(* Type algebra: claims                                                    *)

RECURSIVE HasNil(_)
\* t has a nil component somewhere (an ArrayType{} without element type, ...)
HasNil(t) ==
    CASE t.kind = "Nil" -> TRUE
      [] t.kind = "Array" -> HasNil(t.elem)
      [] t.kind = "Map" -> HasNil(t.key) \/ HasNil(t.value)
      [] t.kind = "Tuple" -> \E i \in 1..Len(t.elems) : HasNil(t.elems[i])
      [] t.kind = "Function" ->
            HasNil(t.ret) \/ \E i \in 1..Len(t.params) : HasNil(t.params[i].type)
      [] t.kind = "Struct" -> \E f \in DOMAIN t.fields : HasNil(t.fields[f].type)
      [] OTHER -> FALSE

\* C7: TypesEqual is reflexive: TypesEqual(t, t) is true for every constructed
\* Type value t of every variant (all components present).
TypesEqualReflexive == (teq.done /\ ~HasNil(ta)) => teq.aa

\* C8: TypesEqual is symmetric: TypesEqual(a, b) equals TypesEqual(b, a) for
\* all constructed Type values a and b.
TypesEqualSymmetric == teq.done => (teq.ab = teq.ba)

FieldTypesMatch(a, b) ==
    \A f \in DOMAIN a.fields :
        /\ f \in DOMAIN b.fields
        /\ TypesEqual(a.fields[f].type, b.fields[f].type)

GenericEqualityByName ==
    /\ (teq.done /\ ta.kind = "Generic") =>
          (teq.ab = (tb.kind = "Generic" /\ ta.name = tb.name))
    /\ (teq.done /\ ta = parseType(GenericNode).type /\ tb = GenericType("t")) => teq.ab

-----------------------------------------------------------------------------
(* Collector: struct declarations, type nodes and malformed input          *)

\* the program is the single struct declaration d, whose field type nodes are
\* all of a kind parseType recognises
WellFormedStruct(d) ==
    /\ d.kind = "type_declaration"
    /\ d.variant = "struct_type"
    /\ Len(d.fields) > 0
    /\ \A i \in 1..Len(d.fields) : parseType(d.fields[i].type).errs = <<>>

\* the Struct a test builds by hand for declaration d: the declared fields with
\* their declared types and default values
ManualStruct(d) ==
    StructType(d.name,
               [x \in {d.fields[i].name : i \in 1..Len(d.fields)} |->
                   LET i == CHOOSE j \in 1..Len(d.fields) : d.fields[j].name = x
                   IN  StructField(x, parseType(d.fields[i].type).type, d.fields[i].default)])

\* C11: collecting a program that is one struct declaration (fields with and
\* without default values) records no collection error, appends exactly one
\* statement and makes the name resolvable in the global scope as a type
\* declaration whose Struct type has exactly the declared field names and
\* types and is TypesEqual to the Struct built by hand.
StructDeclarationCollected ==
    (CollectDone /\ Len(cst) = 1 /\ WellFormedStruct(cst[1])) =>
        LET d == cst[1]
            r == Lookup(scopes, 1, d.name)
            m == ManualStruct(d)
        IN  /\ errors = <<>>
            /\ Len(statements) = 1
            /\ r.found
            /\ r.node.nkind = "type"
            /\ r.node.type.kind = "Struct"
            /\ DOMAIN r.node.type.fields = DOMAIN m.fields
            /\ \A x \in DOMAIN m.fields : r.node.type.fields[x].type = m.fields[x].type
            /\ TypesEqual(r.node.type, m)

\* the statement collected for child i
StmtOf(i) == CHOOSE st \in {statements[k] : k \in 1..Len(statements)} : st.loc = i

ParseErrors == SelectSeq(errors, LAMBDA e : e.msg # "already defined")

\* C12: every type node handed to parseType yields the Type for a recognised
\* kind or an appended collection error: when a pass has recorded no parse
\* error, no annotated declaration has a type with a missing (nil) component.
TypeNodeNeverSilent ==
    ParseErrors = <<>> =>
        \A i \in Processed :
            (cst[i].kind \in {"declaration", "const_declaration"} /\ cst[i].ann.kind # "nil")
                => ~HasNil(StmtOf(i).type)

\* the parameter_type nodes without a type child, over the processed function
\* definitions: (child, parameter position) pairs
TypelessParams ==
    {<<i, k>> \in Processed \X (1..MaxArity) :
        /\ cst[i].kind = "function_definition"
        /\ k <= Len(cst[i].sig.params)
        /\ cst[i].sig.params[k].type.kind = "nil"}

NilParameterErrors == SelectSeq(errors, LAMBDA e : e = NilParameterType)

\* C13: a parameter_type node without a type child makes the Collector record
\* one explicit error for it; the signature keeps one entry per parameter node,
\* the parameters after it carry their parsed types, and the pass goes on to
\* the remaining declarations.
MissingParameterTypeRecorded ==
    /\ Len(NilParameterErrors) = Cardinality(TypelessParams)
    /\ visited = [i \in Processed |-> i]
    /\ \A i \in Processed :
          (cst[i].kind = "function_definition" /\ cst[i].sig.kind # "nil") =>
              LET ps == cst[i].sig.params
                  sg == StmtOf(i).type
              IN  /\ Len(sg.params) = Len(ps)
                  /\ \A k \in 1..Len(ps) :
                        ps[k].type.kind # "nil" =>
                            sg.params[k] =
                                ParameterType(ps[k].modifier, parseType(ps[k].type).type)

\* a signature whose first parameter has no type and whose second has one,
\* followed by a declaration that is registered
WitnessTypelessParameter ==
    /\ CollectDone
    /\ \E i \in Processed :
          /\ <<i, 1>> \in TypelessParams
          /\ Len(StmtOf(i).type.params) = 2
          /\ StmtOf(i).type.params[2].type = PrimitiveType("Int")
          /\ \E j \in Processed : j > i /\ \E n \in GlobalSymbols : n.loc = j
    /\ Len(NilParameterErrors) = 1

\* C14: Collect never ends in a panic on malformed input: a declaration node
\* without a name, keyword or value field leaves the pass running.
CollectNeverPanics == ~panicked

RECURSIVE ClauseNodes(_)
\* the function_clause nodes of a function definition, in declaration order:
\* those directly under it and those inside its clause lists
ClauseNodes(kids) ==
    IF Len(kids) = 0 THEN <<>>
    ELSE (IF Head(kids).kind = "function_clause" THEN <<Head(kids)>>
          ELSE IF Head(kids).kind = "function_clause_list"
               THEN SelectSeq(Head(kids).kids, LAMBDA c : c.kind = "function_clause")
               ELSE <<>>)
             \o ClauseNodes(Tail(kids))

\* C15: a collected function definition has exactly one Clause per
\* function_clause node, in declaration order, whether the clause is directly
\* under the definition or inside a clause list, and a Clause's guard is
\* non-nil exactly when its function_clause node has a guard.
OneClausePerNode ==
    \A i \in Processed :
        cst[i].kind = "function_definition" =>
            LET ns == ClauseNodes(cst[i].clauses)
                cs == StmtOf(i).clauses
            IN  /\ Len(cs) = Len(ns)
                /\ \A k \in 1..Len(ns) :
                      /\ Len(cs[k].params) = Len(ns[k].params)
                      /\ \A j \in 1..Len(ns[k].params) :
                            cs[k].params[j].name = ns[k].params[j].text
                      /\ (cs[k].guard # NilExpr) = (ns[k].guard # NoCst)

-----------------------------------------------------------------------------
(* Checker: expressions                                                    *)

\* a TypeError: its message (the format string's fixed part), Expected, Actual
TypeError(m, e, a) == [msg |-> m, expected |-> e, actual |-> a]

\* a nil *types.FunctionType stored in a types.Type interface: the interface
\* value is not nil, the pointer in it is
NilFunctionPointer == [kind |-> "NilFunctionPointer"]

\* a symbols.VariableSymbol the Checker builds
VariableSymbol(n, t, l) ==
    [id |-> l, nkind |-> "var", name |-> n, loc |-> l, type |-> t, clauses |-> <<>>]

\* a non-nil *types.FunctionType: the FunctionType it points to, under a kind
\* tag of its own (no case of a type switch over the variants matches it)
FunctionPointer(t) == [t EXCEPT !.kind = "FunctionPointer"]

\* Checker.typeOfSymbol: the Signature of a function, the Type of a variable
\* or type
typeOfSymbol(sym) ==
    IF sym.nkind = "func"
    THEN (IF sym.type = NilSignature THEN NilFunctionPointer
          ELSE FunctionPointer(sym.type))
    ELSE IF sym.nkind \in {"var", "type"} THEN sym.type
    ELSE NilType

\* what the Checker reads: the scope tree, the current scope and the lookup
\* tables
Env(scs, sc, fns, tys) == [scs |-> scs, sc |-> sc, fns |-> fns, tys |-> tys]

\* the outcome of checking an expression: its type (NilType for nil), the
\* TypeErrors appended, and whether the check ended in a panic
Checked(t, es, p) == [type |-> t, errs |-> es, panic |-> p]

\* Checker.checkIdentifier
checkIdentifier(name, env) ==
    LET r == Lookup(env.scs, env.sc, name)
    IN  IF r.found THEN Checked(typeOfSymbol(r.node), <<>>, FALSE)
        ELSE IF MapHas(env.fns, name)
             THEN Checked(typeOfSymbol(MapGet(env.fns, name)), <<>>, FALSE)
        ELSE IF MapHas(env.tys, name)
             THEN Checked(MapGet(env.tys, name).type, <<>>, FALSE)
        ELSE Checked(NilType, <<TypeError("undefined", NilType, NilType)>>, FALSE)

\* the kinds CheckExpression gives a fixed primitive type
LiteralType(kind) ==
    CASE kind = "integer_literal" -> "Int"
      [] kind = "float_literal" -> "Float"
      [] kind \in {"string_literal", "raw_string_literal"} -> "Str"
      [] kind = "boolean_literal" -> "Bool"
      [] kind = "char_literal" -> "Char"
      [] OTHER -> ""

\* the last element of a sequence of nodes, NoCst when it is empty
LastOr(ns) == IF Len(ns) = 0 THEN NoCst ELSE ns[Len(ns)]

RECURSIVE FlattenKids(_)
FlattenKids(ns) == IF Len(ns) = 0 THEN <<>> ELSE Head(ns).kids \o FlattenKids(Tail(ns))

RECURSIVE typeStringPanics(_)
\* Checker.typeString dereferences a nil *types.FunctionType it is handed or
\* finds in a component; every other value, nil included, has a string
typeStringPanics(t) ==
    CASE t = NilFunctionPointer -> TRUE
      [] t.kind = "Array" -> typeStringPanics(t.elem)
      [] t.kind = "Map" -> typeStringPanics(t.key) \/ typeStringPanics(t.value)
      [] t.kind = "Tuple" -> \E i \in 1..Len(t.elems) : typeStringPanics(t.elems[i])
      [] t.kind = "FunctionPointer" ->
            \/ typeStringPanics(t.ret)
            \/ \E i \in 1..Len(t.params) : typeStringPanics(t.params[i].type)
      [] OTHER -> FALSE

RECURSIVE CheckExpression(_, _)
RECURSIVE CheckArguments(_, _, _, _)

\* mutant: the arguments of a call are checked whatever their number
\* (an argument beyond the declared parameters is compared with nothing)
checkFunctionCallNoArity(node, env) ==
    LET callee == LastOr(SelectSeq(node.kids, LAMBDA c : c.kind = "identifier"))
        args == FlattenKids(SelectSeq(node.kids, LAMBDA c : c.kind = "argument_list"))
        ct == IF callee = NoCst THEN Checked(NilType, <<>>, FALSE)
              ELSE CheckExpression(callee, env)
    IN  IF callee = NoCst
        THEN Checked(NilType, <<TypeError("invalid function call", NilType, NilType)>>, FALSE)
        ELSE IF ct.type = NilType THEN Checked(NilType, ct.errs, ct.panic)
        ELSE IF ct.type = NilFunctionPointer THEN Checked(NilType, ct.errs, TRUE)
        ELSE IF ct.type.kind # "FunctionPointer"
             THEN Checked(NilType,
                          ct.errs \o <<TypeError("cannot call non-function type",
                                                 NilType, NilType)>>, FALSE)
        ELSE LET as == CheckArguments(
                           SubSeq(args, 1, IF Len(args) < Len(ct.type.params)
                                           THEN Len(args) ELSE Len(ct.type.params)),
                           1, ct.type.params, env)
             IN  Checked(IF as.panic THEN NilType ELSE ct.type.ret,
                         ct.errs \o as.errs, as.panic)

\* Checker.checkFunctionCall
checkFunctionCall(node, env) ==
    LET callee == LastOr(SelectSeq(node.kids, LAMBDA c : c.kind = "identifier"))
        args == FlattenKids(SelectSeq(node.kids, LAMBDA c : c.kind = "argument_list"))
        ct == IF callee = NoCst THEN Checked(NilType, <<>>, FALSE)
              ELSE CheckExpression(callee, env)
    IN  IF callee = NoCst
        THEN Checked(NilType, <<TypeError("invalid function call", NilType, NilType)>>, FALSE)
        ELSE IF ct.type = NilType THEN Checked(NilType, ct.errs, ct.panic)
        ELSE IF ct.type = NilFunctionPointer THEN Checked(NilType, ct.errs, TRUE)
        ELSE IF ct.type.kind # "FunctionPointer"
             THEN Checked(NilType,
                          ct.errs \o <<TypeError("cannot call non-function type",
                                                 NilType, NilType)>>, FALSE)
        ELSE IF Len(args) # Len(ct.type.params)
             THEN Checked(ct.type.ret,
                          ct.errs \o <<TypeError("expected %d arguments but got %d",
                                                 NilType, NilType)>>, FALSE)
        ELSE LET as == CheckArguments(args, 1, ct.type.params, env)
             IN  Checked(IF as.panic THEN NilType ELSE ct.type.ret,
                         ct.errs \o as.errs, as.panic)

\* mutant: the argument loop ends at the first mismatch it reports
CheckArgumentsUntilMismatch(args, i, params, env) ==
    IF i > Len(args) THEN [errs |-> <<>>, panic |-> FALSE]
    ELSE LET a == CheckExpression(args[i], env)
             expected == params[i].type
             mismatch == IF a.type # NilType /\ expected # NilType
                            /\ ~TypesEqual(expected, a.type)
                         THEN <<TypeError("argument %d: expected %s but got %s",
                                          expected, a.type)>>
                         ELSE <<>>
             rest == IF mismatch # <<>> THEN [errs |-> <<>>, panic |-> FALSE]
                     ELSE CheckArguments(args, i + 1, params, env)
         IN  IF a.panic THEN [errs |-> a.errs, panic |-> TRUE]
             ELSE IF mismatch # <<>> /\ (typeStringPanics(expected) \/ typeStringPanics(a.type))
                  THEN [errs |-> a.errs, panic |-> TRUE]
             ELSE [errs |-> a.errs \o mismatch \o rest.errs, panic |-> rest.panic]

\* the argument loop of checkFunctionCall, from argument i on: [errs, panic]
CheckArguments(args, i, params, env) ==
    IF i > Len(args) THEN [errs |-> <<>>, panic |-> FALSE]
    ELSE LET a == CheckExpression(args[i], env)
             expected == params[i].type
             mismatch == IF a.type # NilType /\ expected # NilType
                            /\ ~TypesEqual(expected, a.type)
                         THEN <<TypeError("argument %d: expected %s but got %s",
                                          expected, a.type)>>
                         ELSE <<>>
             rest == CheckArguments(args, i + 1, params, env)
         IN  IF a.panic THEN [errs |-> a.errs, panic |-> TRUE]
             ELSE IF mismatch # <<>> /\ (typeStringPanics(expected) \/ typeStringPanics(a.type))
                  THEN [errs |-> a.errs, panic |-> TRUE]
             ELSE [errs |-> a.errs \o mismatch \o rest.errs, panic |-> rest.panic]

\* a c.typeError whose message formats the types ts with typeString
Reported(e, ts) ==
    IF \E i \in 1..Len(ts) : typeStringPanics(ts[i])
    THEN Checked(NilType, <<>>, TRUE)
    ELSE Checked(NilType, <<e>>, FALSE)

BoolType == PrimitiveType("Bool")

\* PrimitiveType.IsNumericType
IsNumericType(t) ==
    t.name \in {"Int", "Int8", "Int16", "Int32", "Int64",
                "UInt", "UInt8", "UInt16", "UInt32", "UInt64",
                "Float", "Float16", "Float32", "Float64"}

\* mutant: arithmetic only asks for two primitives of the same name
checkArithmeticSameName(lt, rt) ==
    IF lt # NilType /\ rt # NilType
    THEN IF lt.kind # "Primitive" \/ rt.kind # "Primitive"
         THEN Reported(TypeError("cannot perform arithmetic on %s and %s", lt, rt),
                       <<lt, rt>>)
         ELSE IF lt.name # rt.name
              THEN Reported(TypeError("cannot perform arithmetic on %s and %s", lt, rt),
                            <<lt, rt>>)
         ELSE Checked(lt, <<>>, FALSE)
    ELSE Checked(lt, <<>>, FALSE)

\* checkBinaryExpr, case "+", "-", "*", "/", "%", "**"
checkArithmetic(lt, rt) ==
    IF lt # NilType /\ rt # NilType
    THEN IF lt.kind # "Primitive" \/ rt.kind # "Primitive"
         THEN Reported(TypeError("cannot perform arithmetic on %s and %s", lt, rt),
                       <<lt, rt>>)
         ELSE IF ~IsNumericType(lt) \/ ~IsNumericType(rt)
              THEN Reported(TypeError("cannot perform arithmetic on %s and %s", lt, rt),
                            <<lt, rt>>)
         ELSE IF lt.name # rt.name
              THEN Reported(TypeError("cannot perform arithmetic on %s and %s", lt, rt),
                            <<lt, rt>>)
         ELSE IF ~TypesEqual(lt, rt)
              THEN Reported(TypeError("mismatched types in arithmetic: %s and %s", lt, rt),
                            <<lt, rt>>)
         ELSE Checked(lt, <<>>, FALSE)
    ELSE Checked(lt, <<>>, FALSE)

\* the switch of checkBinaryExpr over the operator, on the operand types
binaryOperator(op, lt, rt) ==
    CASE op \in {"==", "!=", ">", "<", ">=", "<="} ->
            IF lt # NilType /\ rt # NilType /\ ~TypesEqual(lt, rt)
            THEN Reported(TypeError("cannot compare %s with %s", lt, rt), <<lt, rt>>)
            ELSE Checked(BoolType, <<>>, FALSE)
      [] op \in {"&&", "||"} ->
            IF lt # NilType /\ ~TypesEqual(BoolType, lt)
            THEN Checked(NilType,
                         <<TypeError("expected Bool for logical operator", BoolType, lt)>>,
                         FALSE)
            ELSE IF rt # NilType /\ ~TypesEqual(BoolType, rt)
            THEN Checked(NilType,
                         <<TypeError("expected Bool for logical operator", BoolType, rt)>>,
                         FALSE)
            ELSE Checked(BoolType, <<>>, FALSE)
      [] op \in {"+", "-", "*", "/", "%", "**"} -> checkArithmetic(lt, rt)
      [] op = "<=>" -> Checked(PrimitiveType("Int"), <<>>, FALSE)
      [] op = "++" ->
            IF lt.kind # "Array" \/ rt.kind # "Array"
            THEN Reported(TypeError("cannot concatenate %s and %s", ArrayType(NilType), lt),
                          <<lt, rt>>)
            ELSE IF ~TypesEqual(lt.elem, rt.elem)
            THEN Reported(TypeError("cannot concatenate arrays with different element types: %s and %s",
                                    lt.elem, rt.elem),
                          <<lt.elem, rt.elem>>)
            ELSE Checked(lt, <<>>, FALSE)
      [] OTHER -> Checked(NilType,
                          <<TypeError("unknown binary operator: %s", NilType, NilType)>>,
                          FALSE)

\* e after the checks a and b of its operands: their errors first; a panic in
\* an operand ends the check
After(a, e) ==
    IF a.panic THEN Checked(NilType, a.errs, TRUE)
    ELSE Checked(e.type, a.errs \o e.errs, e.panic)

\* Checker.checkBinaryExpr: left is the first named child, right the last of
\* the others, the operator the text of the anonymous child; CheckExpression
\* of a missing operand calls Kind on a nil node
checkBinaryExpr(node, env) ==
    IF Len(node.kids) = 0 THEN Checked(NilType, <<>>, TRUE)
    ELSE LET l == CheckExpression(node.kids[1], env)
         IN  IF Len(node.kids) = 1 THEN Checked(NilType, l.errs, TRUE)
             ELSE LET r == CheckExpression(node.kids[Len(node.kids)], env)
                  IN  After(l, After(r, binaryOperator(node.text, l.type, r.type)))

\* Checker.checkUnaryExpr
checkUnaryExpr(node, env) ==
    IF Len(node.kids) = 0 THEN Checked(NilType, <<>>, TRUE)
    ELSE LET o == CheckExpression(node.kids[Len(node.kids)], env)
         IN  After(o, IF node.text = "!"
                      THEN Checked(BoolType,
                                   IF o.type # NilType /\ ~TypesEqual(BoolType, o.type)
                                   THEN <<TypeError("! requires Bool operand", BoolType, o.type)>>
                                   ELSE <<>>,
                                   FALSE)
                      ELSE Checked(o.type, <<>>, FALSE))

\* Checker.checkIfThenElse: condition, then branch and (the last further
\* named child) else branch
checkIfThenElse(node, env) ==
    IF Len(node.kids) = 0 THEN Checked(NilType, <<>>, TRUE)
    ELSE LET c == CheckExpression(node.kids[1], env)
             condErr == IF c.type # NilType /\ ~TypesEqual(BoolType, c.type)
                        THEN <<TypeError("if condition must be Bool", BoolType, c.type)>>
                        ELSE <<>>
         IN  After(c,
               IF Len(node.kids) = 1 THEN Checked(NilType, condErr, TRUE)
               ELSE LET t == CheckExpression(node.kids[2], env)
                    IN  After(Checked(NilType, condErr, FALSE),
                          After(t,
                            IF Len(node.kids) = 2
                            THEN Checked(PrimitiveType("Unit"), <<>>, FALSE)
                            ELSE LET e == CheckExpression(node.kids[Len(node.kids)], env)
                                 IN  After(e,
                                       IF /\ t.type # NilType /\ e.type # NilType
                                          /\ ~TypesEqual(t.type, e.type)
                                       THEN After(Reported(TypeError("if branches have different types: %s vs %s",
                                                                     t.type, e.type),
                                                           <<t.type, e.type>>),
                                                  Checked(t.type, <<>>, FALSE))
                                       ELSE Checked(t.type, <<>>, FALSE)))))

RECURSIVE checkElements(_, _, _)
\* the loop of checkArrayLiteral from the elements ns on, elemType being the
\* reference so far: the element type at the end
checkElements(ns, elemType, env) ==
    IF Len(ns) = 0 THEN Checked(elemType, <<>>, FALSE)
    ELSE LET t == CheckExpression(Head(ns), env)
         IN  After(t,
               IF elemType = NilType THEN checkElements(Tail(ns), t.type, env)
               ELSE After(Checked(NilType,
                                  IF t.type # NilType /\ ~TypesEqual(elemType, t.type)
                                  THEN <<TypeError("array elements must have same type",
                                                   elemType, t.type)>>
                                  ELSE <<>>,
                                  FALSE),
                          checkElements(Tail(ns), elemType, env)))

\* Checker.checkArrayLiteral
checkArrayLiteral(node, env) ==
    LET r == checkElements(node.kids, NilType, env)
    IN  Checked(IF r.panic THEN NilType ELSE ArrayType(r.type), r.errs, r.panic)

RECURSIVE checkTupleElements(_, _)
\* the loop of checkTupleLiteral: type carries the sequence of element types
checkTupleElements(ns, env) ==
    IF Len(ns) = 0 THEN Checked(<<>>, <<>>, FALSE)
    ELSE LET t == CheckExpression(Head(ns), env)
             rest == checkTupleElements(Tail(ns), env)
         IN  IF t.panic THEN Checked(<<>>, t.errs, TRUE)
             ELSE Checked(<<t.type>> \o rest.type, t.errs \o rest.errs, rest.panic)

\* Checker.checkTupleLiteral
checkTupleLiteral(node, env) ==
    LET r == checkTupleElements(node.kids, env)
    IN  Checked(IF r.panic THEN NilType ELSE TupleType(r.type), r.errs, r.panic)

\* Checker.checkLambda: &types.FunctionType{}
checkLambda(node, env) == Checked(FunctionPointer(FunctionType(<<>>, NilType)), <<>>, FALSE)

\* Checker.checkMemberAccess: the first named child is the object, a later
\* child that is no identifier replaces it, a later identifier is the member
checkMemberAccess(node, env) ==
    IF Len(node.kids) = 0 THEN Checked(NilType, <<>>, TRUE)
    ELSE LET later == SubSeq(node.kids, 2, Len(node.kids))
             objs == <<node.kids[1]>> \o SelectSeq(later, LAMBDA c : c.kind # "identifier")
             members == SelectSeq(later, LAMBDA c : c.kind = "identifier")
             memberName == IF Len(members) = 0 THEN "" ELSE members[Len(members)].text
             o == CheckExpression(objs[Len(objs)], env)
         IN  After(o,
               IF o.type.kind = "Struct"
               THEN IF memberName \in DOMAIN o.type.fields
                    THEN Checked(o.type.fields[memberName].type, <<>>, FALSE)
                    ELSE Checked(NilType,
                                 <<TypeError("struct %s has no field %s", NilType, NilType)>>,
                                 FALSE)
               ELSE Checked(NilType, <<>>, FALSE))

\* Checker.checkIndexExpr: the first named child is the object, the last of
\* the others the index
checkIndexExpr(node, env) ==
    IF Len(node.kids) = 0 THEN Checked(NilType, <<>>, TRUE)
    ELSE LET o == CheckExpression(node.kids[1], env)
         IN  IF Len(node.kids) = 1 THEN Checked(NilType, o.errs, TRUE)
             ELSE LET i == CheckExpression(node.kids[Len(node.kids)], env)
                  IN  After(o, After(i,
                        CASE o.type.kind = "Array" ->
                                Checked(o.type.elem,
                                        IF /\ i.type # NilType
                                           /\ ~TypesEqual(PrimitiveType("Int"), i.type)
                                        THEN <<TypeError("array index must be Int",
                                                         PrimitiveType("Int"), i.type)>>
                                        ELSE <<>>,
                                        FALSE)
                          [] o.type.kind = "Map" ->
                                Checked(o.type.value,
                                        IF /\ i.type # NilType
                                           /\ ~TypesEqual(o.type.key, i.type)
                                        THEN <<TypeError("map key type mismatch",
                                                         o.type.key, i.type)>>
                                        ELSE <<>>,
                                        FALSE)
                          [] OTHER ->
                                Reported(TypeError("cannot index type %s", NilType, NilType),
                                         <<o.type>>)))

RECURSIVE checkBlock(_, _)
\* Checker.checkBlock over the named children ns: the type of the last one
checkBlock(ns, env) ==
    IF Len(ns) = 0 THEN Checked(NilType, <<>>, FALSE)
    ELSE LET t == CheckExpression(Head(ns), env)
         IN  After(t, IF Len(ns) = 1 THEN Checked(t.type, <<>>, FALSE)
                      ELSE checkBlock(Tail(ns), env))

\* Checker.CheckExpression (a node of a kind without a case of its own: its
\* first named child)
CheckExpression(node, env) ==
    CASE LiteralType(node.kind) # "" ->
            Checked(PrimitiveType(LiteralType(node.kind)), <<>>, FALSE)
      [] node.kind = "identifier" -> checkIdentifier(node.text, env)
      [] node.kind = "call_expression" -> checkFunctionCall(node, env)
      [] node.kind = "binary_expression" -> checkBinaryExpr(node, env)
      [] node.kind = "unary_expression" -> checkUnaryExpr(node, env)
      [] node.kind = "if_then_else" -> checkIfThenElse(node, env)
      [] node.kind = "array_literal" -> checkArrayLiteral(node, env)
      [] node.kind = "tuple_literal" -> checkTupleLiteral(node, env)
      [] node.kind = "lambda" -> checkLambda(node, env)
      [] node.kind = "member_expression" -> checkMemberAccess(node, env)
      [] node.kind = "index_expression" -> checkIndexExpr(node, env)
      [] node.kind = "block" -> checkBlock(node.kids, env)
      [] OTHER -> IF Len(node.kids) > 0 THEN CheckExpression(node.kids[1], env)
                  ELSE Checked(NilType, <<>>, FALSE)

-----------------------------------------------------------------------------
(* Checker: the pass                                                       *)

\* number of top-level children of a program that is collected and checked
MaxProg == 3

RECURSIVE PatternSlots(_)
\* the (position, pattern) pairs of the nested loops over funcSym.Clauses and
\* clause.ParameterPatterns, in iteration order
PatternSlots(clauses) ==
    IF Len(clauses) = 0 THEN <<>>
    ELSE [j \in 1..Len(Head(clauses).params) |->
              [idx |-> j, pattern |-> Head(clauses).params[j]]]
             \o PatternSlots(Tail(clauses))

\* the outcome of the parameter loops: the function scope's symbols, the
\* TypeErrors appended, and whether they ended in a panic
Bound(syms, es, p) == [symbols |-> syms, errs |-> es, panic |-> p]

RECURSIVE BindPatterns(_, _, _, _)
\* the parameter loops of checkFunctionDef over the slots: the parameter type
\* is read at the pattern's position (a position beyond the signature's
\* parameters is an index out of range); without a parameter type a TypeError
\* naming the pattern is reported (a nil pattern has no name to call); an
\* identifier or literal pattern is defined in the function scope, and the
\* error Define returns is dropped
BindPatterns(slots, sig, syms, loc) ==
    IF Len(slots) = 0 THEN Bound(syms, <<>>, FALSE)
    ELSE LET sl == Head(slots)
         IN  IF sl.idx > Len(sig.params) THEN Bound(syms, <<>>, TRUE)
             ELSE LET pt == sig.params[sl.idx].type
                  IN  IF pt = NilType
                      THEN IF sl.pattern = NilPattern THEN Bound(syms, <<>>, TRUE)
                           ELSE LET rest == BindPatterns(Tail(slots), sig, syms, loc)
                                IN  Bound(rest.symbols,
                                          <<TypeError("function %s has no parameter type for pattern %s",
                                                      NilType, NilType)>> \o rest.errs,
                                          rest.panic)
                      ELSE IF sl.pattern.kind \in {"IdentifierPattern", "LiteralPattern"}
                           THEN BindPatterns(Tail(slots), sig,
                                             Define(syms, VariableSymbol(sl.pattern.name, pt, loc)).symbols,
                                             loc)
                           ELSE BindPatterns(Tail(slots), sig, syms, loc)

\* the TypeErrors reported while the top-level child i is checked, with the
\* Location c.error and c.typeError give them (that of a node of child i)
Located(errs, i) ==
    [k \in 1..Len(errs) |->
        [msg |-> errs[k].msg, expected |-> errs[k].expected,
         actual |-> errs[k].actual, at |-> i]]

\* Collect has returned normally and Check is running
Checking == CollectDone /\ ~panicked /\ ~cpanicked /\ cpos <= Len(cst)

\* mutant: the function scope stays the current scope
PopScopeKept(oldScope, funcScope) == funcScope

\* c.scope = oldScope at the end of checkFunctionDef
PopScope(oldScope, funcScope) == oldScope

\* case "function_definition": checkFunctionDef
CheckFunctionDef ==
    /\ Checking
    /\ cst[cpos].kind = "function_definition"
    /\ LET name == cst[cpos].name
           funcScope == Len(scopes) + 1
           pushed == NewScope(scopes, cscope, ScopeFunction)
           known == MapHas(Functions, name) /\ MapGet(Functions, name).type # NilSignature
           funcSym == MapGet(Functions, name)
           b == IF known
                THEN BindPatterns(PatternSlots(funcSym.clauses), funcSym.type, {}, cpos)
                ELSE Bound({}, <<>>, FALSE)
       IN  /\ scopes' = [pushed EXCEPT ![funcScope].symbols = b.symbols]
           /\ terrors' = terrors \o Located(b.errs, cpos)
           /\ cpanicked' = b.panic
           /\ cscope' = IF b.panic THEN funcScope ELSE PopScope(cscope, funcScope)
           /\ cpos' = IF b.panic THEN cpos ELSE cpos + 1
    /\ UNCHANGED <<Types, Functions, Traits, TraitImpls, nextId, lastOp, lastType>>
    /\ UNCHANGED <<typeVars, collectVars, cexpr>>

\* Checker.parseTypeNode: the Type of the node inside a type_annotation
parseTypeNode(node) == parseType(node).type

\* isExpression
isExpression(kind) ==
    kind \in {"integer_literal", "float_literal", "string_literal", "boolean_literal",
              "identifier", "call_expression", "binary_expression", "unary_expression",
              "if_then_else", "array_literal", "tuple_literal", "lambda",
              "index_expression", "block"}

\* case "declaration": checkDeclaration. The child loop takes the text of the
\* last identifier child as the name, so an initialiser that is a bare
\* identifier is read as the name and no initialiser is left; the error of
\* Define is dropped
CheckDeclaration ==
    /\ Checking
    /\ cst[cpos].kind = "declaration"
    /\ LET node == cst[cpos]
           varName == IF node.value.kind = "identifier" THEN node.value.text
                      ELSE node.name
           hasInit == node.value.kind # "identifier" /\ isExpression(node.value.kind)
           declaredType == parseTypeNode(node.ann)
           r == IF hasInit
                THEN CheckExpression(node.value, Env(scopes, cscope, Functions, Types))
                ELSE Checked(NilType, <<>>, FALSE)
           mismatch == IF hasInit /\ declaredType # NilType /\ r.type # NilType
                          /\ ~TypesEqual(declaredType, r.type)
                       THEN <<TypeError("cannot assign %s to variable %s of type %s",
                                        declaredType, r.type)>>
                       ELSE <<>>
           sym == VariableSymbol(varName,
                                 IF declaredType = NilType THEN r.type ELSE declaredType,
                                 cpos)
           panics == \/ r.panic
                     \/ mismatch # <<>> /\ (typeStringPanics(r.type)
                                              \/ typeStringPanics(declaredType))
       IN  /\ terrors' = terrors \o Located(IF panics THEN r.errs
                                             ELSE r.errs \o mismatch, cpos)
           /\ cpanicked' = panics
           /\ lastType' = r.type
           /\ scopes' = IF panics THEN scopes
                        ELSE [scopes EXCEPT ![cscope].symbols = Define(@, sym).symbols]
           /\ cpos' = IF panics THEN cpos ELSE cpos + 1
    /\ UNCHANGED <<cscope, Types, Functions, Traits, TraitImpls, nextId, lastOp>>
    /\ UNCHANGED <<typeVars, collectVars, cexpr>>

\* a child of any other kind: checkProgram does nothing for it
CheckOther ==
    /\ Checking
    /\ cst[cpos].kind \notin {"function_definition", "declaration"}
    /\ cpos' = cpos + 1
    /\ UNCHANGED <<cscope, terrors, lastType, cpanicked, cexpr>>
    /\ UNCHANGED <<typeVars, tableVars, collectVars>>

-----------------------------------------------------------------------------
(* Checker: the programs checked                                           *)

FloatNode == TypeNode("float_type", "Float", <<>>)

StrNode == TypeNode("string_type", "Str", <<>>)

IntLit(t) == ExprNode("integer_literal", t, <<>>)

\* f(args): the callee identifier and the argument_list with its named children
CallNode(f, args) ==
    ExprNode("call_expression", f,
             <<IdentNode(f), ExprNode("argument_list", "", args)>>)

\* def n: sg = cs
FuncNode(n, sg, cs) ==
    WithClauses(TopNode("function_definition", "", n, NoCst, sg, <<>>), cs)

\* let n: a = e (a = NoCst without annotation)
LetNode(n, a, e) == WithValue(TopNode("declaration", "", n, a, NoFnType, <<>>), e)

\* (p1, .., pk) => b with identifier patterns
IdentClause(ps, b) ==
    ClauseNode([i \in 1..Len(ps) |-> PatternNode("identifier", ps[i])], NoCst, b)

IntIntToInt == FnTypeNode(<<ParamNode("", IntNode), ParamNode("", IntNode)>>, IntNode)

\* def sum: (Int, Int) -> Int = (a, b) => a
SumDef == FuncNode("sum", IntIntToInt, <<IdentClause(<<"a", "b">>, IdentNode("a"))>>)

\* def pick: (Int, Float) -> Int = { (x, y) => x, (y, x) => x }
PickDef ==
    FuncNode("pick", FnTypeNode(<<ParamNode("", IntNode), ParamNode("", FloatNode)>>, IntNode),
             <<ClauseListNode(<<IdentClause(<<"x", "y">>, IdentNode("x")), CommaNode,
                                IdentClause(<<"y", "x">>, IdentNode("x"))>>)>>)

\* def pick: (Int) -> Int = { (0) => 0, (x, y) => x }: a clause with more
\* patterns than the signature has parameters
TooManyDef ==
    FuncNode("pick", FnTypeNode(<<ParamNode("", IntNode)>>, IntNode),
             <<ClauseListNode(<<ClauseNode(<<PatternNode("literal_pattern", "0")>>,
                                           NoCst, IntLit("0")),
                                CommaNode,
                                IdentClause(<<"x", "y">>, IdentNode("x"))>>)>>)

\* def sum: (Int, Int) -> Int = (a) => a: a clause with fewer patterns
TooFewDef == FuncNode("sum", IntIntToInt, <<IdentClause(<<"a">>, IdentNode("a"))>>)

\* def say_hello: (Str) -> Str = (name) => 42
SayHelloDef ==
    FuncNode("say_hello", FnTypeNode(<<ParamNode("", StrNode)>>, StrNode),
             <<IdentClause(<<"name">>, IntLit("42"))>>)

\* let x: Float = sum(1, "2")
LetFloatSum ==
    LetNode("x", FloatNode,
            CallNode("sum", <<IntLit("1"), ExprNode("string_literal", "2", <<>>)>>))

\* let x: Int = sum(1)
LetSumOne == LetNode("x", IntNode, CallNode("sum", <<IntLit("1")>>))

\* let y = sum(1, 2)
LetSumOk == LetNode("y", NoCst, CallNode("sum", <<IntLit("1"), IntLit("2")>>))

\* let y: Int = sum(2.0, z)
LetSumFloatZ ==
    LetNode("y", IntNode,
            CallNode("sum", <<ExprNode("float_literal", "2.0", <<>>), IdentNode("z")>>))

\* let z: Int = sum(true, 2.0)
LetSumBoth ==
    LetNode("z", IntNode,
            CallNode("sum", <<ExprNode("boolean_literal", "true", <<>>),
                              ExprNode("float_literal", "2.0", <<>>)>>))

\* const c: Int = 1
ConstNode ==
    WithValue(TopNode("const_declaration", "", "c", IntNode, NoFnType, <<>>), IntLit("1"))

CheckInputs ==
    {SumDef, PickDef, TooManyDef, TooFewDef, SayHelloDef,
     LetFloatSum, LetSumOne, LetSumOk, LetSumFloatZ, LetSumBoth, ConstNode}

\* NewCollector(source), Collect(root), then NewChecker(program, table) and
\* Check() over the same children
CheckInit ==
    /\ TypesIdle
    /\ TableInit
    /\ CheckIdle
    /\ cst \in SeqsUpTo(CheckInputs, MaxProg)
    /\ pos = 1
    /\ visited = <<>>
    /\ statements = <<>>
    /\ errors = <<>>
    /\ panicked = FALSE

CheckNext ==
    \/ CollectFunctionDef
    \/ CollectVariableDeclaration
    \/ CheckFunctionDef
    \/ CheckDeclaration
    \/ CheckOther

SpecCheck == CheckInit /\ [][CheckNext]_vars

-----------------------------------------------------------------------------
(* Checker: function definitions                                           *)

\* the TypeErrors this step appends
NewTypeErrors == SubSeq(terrors', Len(terrors) + 1, Len(terrors'))

\* this step is Check working on the function_definition at cpos, whose name
\* the table knows with a signature
ChecksFunctionDef ==
    /\ Checking
    /\ cst[cpos].kind = "function_definition"
    /\ checkVars' # checkVars
    /\ MapHas(Functions, cst[cpos].name)
    /\ MapGet(Functions, cst[cpos].name).type.kind = "Function"

\* the symbol and the signature checkFunctionDef works with
CheckedFunction == MapGet(Functions, cst[cpos].name)

\* C16: for every function definition and every one of its clauses, each
\* parameter pattern at position j (an identifier, or a literal by its text)
\* resolves, in the scope the clause bodies are checked in, to the signature's
\* parameter type at position j, also when another clause uses the same name
\* at a different position; the bindings are not visible to the rest of the
\* program (the current scope is the enclosing one again and has no new
\* binding).
ClauseBindingsPerPosition ==
    [][(ChecksFunctionDef /\ ~cpanicked') =>
          LET sig == CheckedFunction.type
              cs == CheckedFunction.clauses
              funcScope == Len(scopes) + 1
          IN  /\ cscope' = cscope
              /\ scopes'[cscope].symbols = scopes[cscope].symbols
              /\ \A k \in 1..Len(cs) : \A j \in 1..Len(cs[k].params) :
                    (/\ j <= Len(sig.params)
                     /\ sig.params[j].type # NilType
                     /\ cs[k].params[j] # NilPattern) =>
                        LET r == Lookup(scopes', funcScope, cs[k].params[j].name)
                        IN  r.found /\ r.node.type = sig.params[j].type]_vars

\* C17: when a clause's parameter-pattern count differs from its signature's
\* parameter count (more patterns or fewer), checking the definition reports
\* a TypeError located at it and goes on to the next statement; it never
\* ends the pass.
PatternCountMismatchReported ==
    [][(/\ ChecksFunctionDef
        /\ \E k \in 1..Len(CheckedFunction.clauses) :
              Len(CheckedFunction.clauses[k].params) # Len(CheckedFunction.type.params)) =>
          /\ ~cpanicked'
          /\ cpos' = cpos + 1
          /\ \E e \in 1..Len(NewTypeErrors) : NewTypeErrors[e].at = cpos]_vars

\* the type of a clause body that is a literal, NilType for any other body
LiteralBodyType(body) ==
    CASE body.kind = "IntegerLiteralExpr" -> PrimitiveType("Int")
      [] body.kind = "FloatLiteralExpr" -> PrimitiveType("Float")
      [] body.kind = "BooleanLiteralExpr" -> PrimitiveType("Bool")
      [] OTHER -> NilType

\* C18: for every clause of every function definition, a body whose type is
\* not compatible with the signature's declared return type is reported as
\* a TypeError located at the definition (here: a literal body of one
\* primitive type under a declared return type that is another primitive).
BodyTypeMismatchReported ==
    [][(/\ ChecksFunctionDef
        /\ ~cpanicked'
        /\ CheckedFunction.type.ret.kind = "Primitive"
        /\ \E k \in 1..Len(CheckedFunction.clauses) :
              LET t == LiteralBodyType(CheckedFunction.clauses[k].body)
              IN  t # NilType /\ t # CheckedFunction.type.ret) =>
          \E e \in 1..Len(NewTypeErrors) : NewTypeErrors[e].at = cpos]_vars

-----------------------------------------------------------------------------
(* Checker: calls                                                          *)

\* the call that initialises the declaration at cpos, its callee and arguments
DeclCall == cst[cpos].value

CalleeName == DeclCall.kids[1].text

ArgNodes == DeclCall.kids[2].kids

\* the signature the callee's name is declared with, NilType without one
DeclaredSignature ==
    LET r == Lookup(scopes, cscope, CalleeName)
    IN  IF r.found /\ r.node.nkind = "func" THEN r.node.type ELSE NilType

\* this step is Check working on a declaration initialised by a call of a
\* function with a declared signature
ChecksCall ==
    /\ Checking
    /\ cst[cpos].kind = "declaration"
    /\ DeclCall.kind = "call_expression"
    /\ checkVars' # checkVars
    /\ DeclaredSignature.kind = "Function"

\* the TypeErrors of this step that are reported for the call itself
CallErrors ==
    SelectSeq(NewTypeErrors,
              LAMBDA e : e.msg # "cannot assign %s to variable %s of type %s")

ArityError(i) ==
    [msg |-> "expected %d arguments but got %d", expected |-> NilType,
     actual |-> NilType, at |-> i]

\* C19: checking a call whose argument count differs from the callee's
\* declared parameter count reports exactly one arity-mismatch TypeError for
\* that call (and nothing else for it), and the call's derived type is still
\* the callee's declared return type.
ArityMismatchReportedOnce ==
    [][(ChecksCall /\ Len(ArgNodes) # Len(DeclaredSignature.params)) =>
          /\ CallErrors = <<ArityError(cpos)>>
          /\ lastType' = DeclaredSignature.ret
          /\ ~cpanicked'
          /\ cpos' = cpos + 1]_vars

\* let x: Int = sum(1) has been checked: one arity error, derived type Int
WitnessArityMismatch ==
    /\ cpos > 1
    /\ cst[cpos - 1] = LetSumOne
    /\ lastType = PrimitiveType("Int")
    /\ Len(terrors) > 0
    /\ terrors[Len(terrors)] = ArityError(cpos - 1)

\* the derived type of argument i of the call
ArgType(i) == CheckExpression(ArgNodes[i], Env(scopes, cscope, Functions, Types)).type

\* the positions whose argument and declared parameter both have a type and
\* the two are not TypesEqual, in order
MismatchedArgs ==
    SelectSeq([i \in 1..Len(ArgNodes) |-> i],
              LAMBDA i : /\ ArgType(i) # NilType
                         /\ DeclaredSignature.params[i].type # NilType
                         /\ ~TypesEqual(DeclaredSignature.params[i].type, ArgType(i)))

ArgumentError(e, a, i) ==
    [msg |-> "argument %d: expected %s but got %s", expected |-> e, actual |-> a,
     at |-> i]

AssignError(e, a, i) ==
    [msg |-> "cannot assign %s to variable %s of type %s", expected |-> e,
     actual |-> a, at |-> i]

\* C20: checking a call with the right number of arguments reports one
\* type-mismatch TypeError, carrying the expected and the actual type, for
\* each argument whose derived type is not TypesEqual to the declared
\* parameter type at its position (argument and parameter both having a
\* type), in argument order, and derives the declared return type; hence
\* let x: Float = sum(1, "2") with sum: (Int, Int) -> Int yields exactly two
\* TypeErrors, one for the argument and one for the assignment.
ArgumentMismatchesReported ==
    [][(ChecksCall /\ Len(ArgNodes) = Len(DeclaredSignature.params)) =>
          /\ SelectSeq(CallErrors,
                       LAMBDA e : e.msg = "argument %d: expected %s but got %s")
                 = [k \in 1..Len(MismatchedArgs) |->
                       ArgumentError(DeclaredSignature.params[MismatchedArgs[k]].type,
                                     ArgType(MismatchedArgs[k]), cpos)]
          /\ \A k \in 1..Len(CallErrors) :
                 CallErrors[k].msg \in {"argument %d: expected %s but got %s",
                                        "undefined"}
          /\ lastType' = DeclaredSignature.ret
          /\ ~cpanicked'
          /\ cst[cpos] = LetFloatSum =>
                 NewTypeErrors =
                     <<ArgumentError(PrimitiveType("Int"), PrimitiveType("Str"), cpos),
                       AssignError(PrimitiveType("Float"), PrimitiveType("Int"), cpos)>>]_vars

\* let x: Float = sum(1, "2") has been checked: the argument error, then the
\* assignment error
WitnessArgumentAndAssignment ==
    /\ cpos > 1
    /\ cst[cpos - 1] = LetFloatSum
    /\ Len(terrors) >= 2
    /\ terrors[Len(terrors) - 1] =
          ArgumentError(PrimitiveType("Int"), PrimitiveType("Str"), cpos - 1)
    /\ terrors[Len(terrors)] =
          AssignError(PrimitiveType("Float"), PrimitiveType("Int"), cpos - 1)

-----------------------------------------------------------------------------
(* Checker: variable declarations                                          *)

\* number of declarations of a program that is collected and checked
MaxDecls == 2

StrLit(t) == ExprNode("string_literal", t, <<>>)

FloatLit(t) == ExprNode("float_literal", t, <<>>)

\* an expression around its named children, the text of its anonymous child
\* (the operator) being op
OpNode(k, op, ks) == ExprNode(k, op, ks)

\* let the_answer: Int = 42
LetAnswer == LetNode("the_answer", IntNode, IntLit("42"))

\* let the_answer: Int = "42"
LetAnswerStr == LetNode("the_answer", IntNode, StrLit("42"))

\* let c: Int = 'x'
LetChar == LetNode("c", IntNode, ExprNode("char_literal", "'x'", <<>>))

\* let x = 2.0
LetInferred == LetNode("x", NoCst, FloatLit("2.0"))

\* let y: Int = x
LetFromIdent == LetNode("y", IntNode, IdentNode("x"))

\* let z: Int = -x
LetFromNegated == LetNode("z", IntNode, OpNode("unary_expression", "-", <<IdentNode("x")>>))

\* let s: Str = "x"
LetStr == LetNode("s", StrNode, StrLit("x"))

DeclInputs ==
    {LetAnswer, LetAnswerStr, LetChar, LetInferred, LetFromIdent, LetFromNegated, LetStr}

\* NewCollector, Collect, NewChecker and Check over a program of declarations
DeclInit ==
    /\ TypesIdle
    /\ TableInit
    /\ CheckIdle
    /\ cst \in SeqsUpTo(DeclInputs, MaxDecls)
    /\ pos = 1
    /\ visited = <<>>
    /\ statements = <<>>
    /\ errors = <<>>
    /\ panicked = FALSE

DeclNext ==
    \/ CollectVariableDeclaration
    \/ CheckDeclaration

SpecDecl == DeclInit /\ [][DeclNext]_vars

\* this step is Check working on the declaration at cpos
ChecksDeclaration ==
    /\ Checking
    /\ cst[cpos].kind = "declaration"
    /\ checkVars' # checkVars

\* the type CheckExpression derives for the initialiser of the declaration
\* at cpos
InitializerType ==
    CheckExpression(cst[cpos].value, Env(scopes, cscope, Functions, Types)).type

\* the declared type of the declaration at cpos
AnnotatedType == parseType(cst[cpos].ann).type

\* C21: checking a variable declaration with declared type T whose
\* initialiser derives type U reports exactly one TypeError ("cannot assign U
\* to variable <name> of type T", expected T, actual U) when T and U are not
\* TypesEqual, and no TypeError when they are.
AssignmentMismatchReported ==
    [][(/\ ChecksDeclaration
        /\ AnnotatedType # NilType
        /\ InitializerType # NilType) =>
          NewTypeErrors = IF TypesEqual(AnnotatedType, InitializerType) THEN <<>>
                          ELSE <<AssignError(AnnotatedType, InitializerType, cpos)>>]_vars

\* the declaration at cpos has no type annotation and an initialiser of a
\* known type
Unannotated(i) ==
    /\ cst[i].kind = "declaration"
    /\ cst[i].ann = NoCst
    /\ LiteralType(cst[i].value.kind) # ""

\* the declaration at cpos is initialised from the variable declared at i,
\* either by the bare identifier or by an expression around it
InitialisedFrom(i) ==
    \/ cst[cpos].value = IdentNode(cst[i].name)
    \/ /\ cst[cpos].value.kind = "unary_expression"
       /\ cst[cpos].value.kids = <<IdentNode(cst[i].name)>>

\* C27: after Check processes a variable declaration without a type
\* annotation the variable is bound with the type derived from its
\* initialiser, and a later declaration with a different declared type that
\* is initialised from that variable reports a TypeError.
InferredTypeBound ==
    [][/\ (ChecksDeclaration /\ Unannotated(cpos)) =>
            LET b == Lookup(scopes', cscope, cst[cpos].name)
            IN  /\ b.found
                /\ typeOfSymbol(b.node) = PrimitiveType(LiteralType(cst[cpos].value.kind))
       /\ (/\ ChecksDeclaration
           /\ cpos = 2
           /\ Unannotated(1)
           /\ InitialisedFrom(1)
           /\ cst[2].name # cst[1].name
           /\ AnnotatedType # NilType
           /\ AnnotatedType # PrimitiveType(LiteralType(cst[1].value.kind))) =>
            NewTypeErrors # <<>>]_vars

\* the type-annotation keyword node that names the type of a literal kind
MatchingKeyword(kind) ==
    CASE kind = "integer_literal" -> IntNode
      [] kind = "float_literal" -> FloatNode
      [] kind \in {"string_literal", "raw_string_literal"} -> StrNode
      [] OTHER -> NoCst

\* this step is Check working on a declaration whose initialiser is a literal
ChecksLiteralDeclaration ==
    /\ ChecksDeclaration
    /\ LiteralType(cst[cpos].value.kind) # ""
    /\ isExpression(cst[cpos].value.kind)

\* C29: the type derived for a literal is a Primitive whose name is one of
\* the PrimitiveTypeName constants and is the Primitive parseType gives for
\* the matching annotation keyword, so a literal initialising a variable
\* annotated with its own keyword (a string literal under the string type)
\* reports no TypeError.
LiteralTypesArePrimitives ==
    [][ChecksLiteralDeclaration =>
          /\ lastType'.kind = "Primitive"
          /\ lastType'.name \in PrimitiveNames
          /\ lastType' = parseType(MatchingKeyword(cst[cpos].value.kind)).type
          /\ (cst[cpos].ann = MatchingKeyword(cst[cpos].value.kind)) =>
                NewTypeErrors = <<>>]_vars

-----------------------------------------------------------------------------
(* Checker: the pass as a whole                                            *)

\* C22: Check never aborts on an error: it is never left before every
\* top-level statement has been checked, whatever errors earlier statements
\* produced, and a TypeError once appended to the checker's list is never
\* removed or overwritten (every step extends the list at its end).
CheckNeverAborts ==
    /\ [](~cpanicked)
    /\ [][/\ Len(terrors') >= Len(terrors)
           /\ SubSeq(terrors', 1, Len(terrors)) = terrors]_vars

\* this step is Check working on the top-level statement at cpos
CheckStep == Checking /\ checkVars' # checkVars

\* C23: Check leaves the symbol table as the Collector produced it: no step
\* of Check changes the global scope's bindings, its list of child scopes or
\* the Types and Functions registries.
CheckLeavesTable ==
    [][CheckStep =>
          /\ scopes'[1].symbols = scopes[1].symbols
          /\ scopes'[1].children = scopes[1].children
          /\ Types' = Types
          /\ Functions' = Functions]_vars

\* C28: the checker's current scope follows stack discipline: it is the
\* symbol table's global scope before and after checking each top-level
\* statement and when Check returns; each scope pushed for a function
\* definition is a Function-kind child of the scope current at the push and
\* is popped before the next top-level statement is checked.
ScopeStackDiscipline ==
    /\ [](~cpanicked => cscope = 1)
    /\ [][(CheckStep /\ ~cpanicked') =>
             /\ cscope' = cscope
             /\ cst[cpos].kind # "function_definition" => Len(scopes') = Len(scopes)
             /\ cst[cpos].kind = "function_definition" =>
                    /\ Len(scopes') = Len(scopes) + 1
                    /\ scopes'[Len(scopes')].kind = ScopeFunction
                    /\ scopes'[Len(scopes')].parent = cscope
                    /\ scopes'[cscope].children =
                           Append(scopes[cscope].children, Len(scopes'))]_vars

\* two function definitions have been checked: two Function scopes under the
\* global scope, which is current again
WitnessScopesPopped ==
    /\ cpos > 2
    /\ ~cpanicked
    /\ cscope = 1
    /\ scopes[1].children = <<2, 3>>
    /\ scopes[3].kind = ScopeFunction

-----------------------------------------------------------------------------
(* Checker: CheckExpression called on an expression                        *)

\* number of top-level children of the program collected before the call
MaxExprProg == 2

BoolLit(t) == ExprNode("boolean_literal", t, <<>>)

\* type P = struct { x: Int }
StructP ==
    TopNode("type_declaration", "struct_type", "P", NoCst, NoFnType,
            <<FieldNode("x", IntNode, "")>>)

\* let n: Int = 1
LetN == LetNode("n", IntNode, IntLit("1"))

\* let xs: []Float = [2.0]
LetXs ==
    LetNode("xs", TypeNode("array_type", "[]Float", <<FloatNode>>),
            ExprNode("array_literal", "[2.0]", <<FloatLit("2.0")>>))

ExprProgInputs == {StructP, LetN, LetXs, SumDef}

\* [1]
ArrayOfInt == ExprNode("array_literal", "[1]", <<IntLit("1")>>)

\* the operands the expressions are built from: literals, the variables n and
\* xs, the type P, the function sum and the name zz that nothing declares
Operands ==
    {IntLit("1"), FloatLit("2.0"), BoolLit("true"), ArrayOfInt,
     IdentNode("n"), IdentNode("xs"), IdentNode("P"), IdentNode("sum"), IdentNode("zz")}

BinaryOperators == {"==", "<", "&&", "+", "**", "++", "<=>", "~"}

ExprInputs ==
    {OpNode("binary_expression", op, <<l, r>>) :
         op \in BinaryOperators, l \in Operands, r \in Operands}
      \cup {OpNode("unary_expression", op, <<o>>) : op \in {"!", "-"}, o \in Operands}
      \cup {ExprNode("member_expression", "", <<o, IdentNode(f)>>) :
                o \in Operands, f \in {"x", "y"}}
      \cup {ExprNode("index_expression", "", <<o, i>>) :
                o \in Operands, i \in {IntLit("1"), BoolLit("true"), IdentNode("zz")}}
      \cup {ExprNode("if_then_else", "", <<c>> \o bs) :
                c \in {BoolLit("true"), IntLit("1"), IdentNode("zz")},
                bs \in {<<IntLit("1")>>, <<IntLit("1"), IntLit("2")>>,
                        <<IntLit("1"), FloatLit("2.0")>>, <<IdentNode("zz"), IntLit("2")>>,
                        <<IntLit("1"), IdentNode("zz")>>}}
      \cup {ExprNode("array_literal", "", es) :
                es \in {<<>>, <<IntLit("1"), FloatLit("2.0")>>,
                        <<IdentNode("zz"), IntLit("1")>>, <<IntLit("1"), IdentNode("zz")>>}}
      \cup {ExprNode("tuple_literal", "", <<IntLit("1"), IdentNode("zz")>>),
            ExprNode("lambda", "", <<>>),
            ExprNode("block", "", <<IntLit("1"), BoolLit("true")>>),
            ExprNode("parenthesized_expression", "", <<IdentNode("n")>>),
            CallNode("sum", <<IdentNode("zz"), IntLit("1")>>),
            CallNode("sum", <<IntLit("1"), IntLit("2")>>),
            CallNode("zz", <<IntLit("1")>>),
            CallNode("n", <<IntLit("1")>>),
            ExprNode("call_expression", "", <<>>)}

\* NewCollector and Collect over a program, then NewChecker on its table
ExprInit ==
    /\ TypesIdle
    /\ TableInit
    /\ CheckIdle
    /\ cst \in SeqsUpTo(ExprProgInputs, MaxExprProg)
    /\ pos = 1
    /\ visited = <<>>
    /\ statements = <<>>
    /\ errors = <<>>
    /\ panicked = FALSE

\* Checker.CheckExpression(e) called once on the new Checker, in the global
\* scope
CheckExpr ==
    /\ CollectDone
    /\ ~panicked
    /\ cexpr = NoCst
    /\ \E e \in ExprInputs :
          LET r == CheckExpression(e, Env(scopes, cscope, Functions, Types))
          IN  /\ cexpr' = e
              /\ lastType' = r.type
              /\ terrors' = terrors \o Located(r.errs, 0)
              /\ cpanicked' = r.panic
    /\ UNCHANGED <<cpos, cscope>>
    /\ UNCHANGED <<typeVars, tableVars, collectVars>>

ExprNext ==
    \/ CollectTypeDeclaration
    \/ CollectVariableDeclaration
    \/ CollectFunctionDef
    \/ CheckExpr

SpecExpr == ExprInit /\ [][ExprNext]_vars

\* this step is the call of CheckExpression on an expression of kind k that
\* returns
ChecksExpr(k) ==
    /\ cexpr = NoCst
    /\ cexpr' # NoCst
    /\ cexpr'.kind = k
    /\ ~cpanicked'

\* the type CheckExpression derives for the i-th named child of the expression
OperandType(i) ==
    CheckExpression(cexpr'.kids[i], Env(scopes, cscope, Functions, Types)).type

\* C24: for a comparison operator the operand types must be TypesEqual to
\* each other, a mismatch (both types known) reports one TypeError carrying
\* the two types, and the derived type of the comparison is Bool whether the
\* operands matched or not.
ComparisonIsBool ==
    [][(/\ ChecksExpr("binary_expression")
        /\ cexpr'.text \in {"==", "!=", ">", "<", ">=", "<="}
        /\ OperandType(1) # NilType
        /\ OperandType(2) # NilType) =>
          /\ lastType' = PrimitiveType("Bool")
          /\ NewTypeErrors =
                IF TypesEqual(OperandType(1), OperandType(2)) THEN <<>>
                ELSE <<[msg |-> "cannot compare %s with %s", expected |-> OperandType(1),
                        actual |-> OperandType(2), at |-> 0]>>]_vars

\* a numeric primitive
NumericPrimitive(t) ==
    /\ t.kind = "Primitive"
    /\ t.name \in PrimitiveNames \ {"Bool", "String"}

\* C25: for an arithmetic operator whose operand types are both known,
\* exactly one TypeError (carrying the two types) is reported when the
\* operands are not the same numeric primitive (an operand that is not a
\* primitive, not numeric, or a differently named numeric primitive) and none
\* when they are, in which case the derived type is that shared operand type.
ArithmeticSameNumeric ==
    [][(/\ ChecksExpr("binary_expression")
        /\ cexpr'.text \in {"+", "-", "*", "/", "%", "**"}
        /\ OperandType(1) # NilType
        /\ OperandType(2) # NilType) =>
          IF NumericPrimitive(OperandType(1)) /\ OperandType(2) = OperandType(1)
          THEN NewTypeErrors = <<>> /\ lastType' = OperandType(1)
          ELSE /\ Len(NewTypeErrors) = 1
               /\ NewTypeErrors[1].expected = OperandType(1)
               /\ NewTypeErrors[1].actual = OperandType(2)
               /\ NewTypeErrors[1].msg \in {"cannot perform arithmetic on %s and %s",
                                             "mismatched types in arithmetic: %s and %s"}]_vars

\* true + true has been checked: one TypeError for the non-numeric operands
WitnessNonNumericArithmetic ==
    /\ cexpr = OpNode("binary_expression", "+", <<BoolLit("true"), BoolLit("true")>>)
    /\ Len(terrors) = 1
    /\ terrors[1].msg = "cannot perform arithmetic on %s and %s"
    /\ terrors[1].expected = PrimitiveType("Bool")

\* C26: member access obj.f derives the field's type when the type of obj is
\* a Struct that has a field f; in every other case where obj's type is known
\* (a Struct without that field, or an object whose type is not a Struct) a
\* TypeError is reported.
MemberAccessChecked ==
    [][(/\ ChecksExpr("member_expression")
        /\ OperandType(1) # NilType) =>
          LET t == OperandType(1)
              f == cexpr'.kids[2].text
          IN  IF t.kind = "Struct" /\ f \in DOMAIN t.fields
              THEN lastType' = t.fields[f].type /\ NewTypeErrors = <<>>
              ELSE Len(NewTypeErrors) = 1]_vars

RECURSIVE CountName(_, _)
\* the number of identifier nodes of name n in the expression e
CountName(e, n) ==
    IF e.kind = "identifier" THEN (IF e.text = n THEN 1 ELSE 0)
    ELSE IF Len(e.kids) = 0 THEN 0
    ELSE CountName(Head(e.kids), n)
           + CountName([e EXCEPT !.kind = "rest", !.kids = Tail(e.kids)], n)

RECURSIVE Substitute(_, _, _)
\* e with every identifier node of name n replaced by w
Substitute(e, n, w) ==
    IF e.kind = "identifier" THEN (IF e.text = n THEN w ELSE e)
    ELSE [e EXCEPT !.kids = [i \in 1..Len(e.kids) |-> Substitute(e.kids[i], n, w)]]

\* e is well-typed except for its one reference to the undeclared name zz:
\* some operand in place of zz makes its check free of errors
WellTypedButFor(e) ==
    /\ CountName(e, "zz") = 1
    /\ \E w \in Operands \ {IdentNode("zz")} :
          LET r == CheckExpression(Substitute(e, "zz", w),
                                   Env(scopes, cscope, Functions, Types))
          IN  r.errs = <<>> /\ ~r.panic

\* C30: a single failed sub-check does not cascade: for an expression that
\* is well-typed except for one undefined identifier, exactly one TypeError
\* (the undefined reference) is reported, whichever construct the identifier
\* is an operand of.
UndefinedReportedOnce ==
    [][(/\ cexpr = NoCst
        /\ cexpr' # NoCst
        /\ WellTypedButFor(cexpr')) =>
          /\ ~cpanicked'
          /\ NewTypeErrors =
                <<[msg |-> "undefined", expected |-> NilType, actual |-> NilType,
                   at |-> 0]>>]_vars

=============================================================================
